---- MODULE Spec2Model ----
(***************************************************************************)
(* A model of the agentic-bizflow conversion pipeline                       *)
(*   Reader -> {Planner -> Validator} (bounded retry) -> Generator          *)
(* as driven by Orchestrator.convert (backend/app/agent/orchestrator.py).   *)
(*                                                                         *)
(* Representation of Python values                                         *)
(*   - A Python str that the code searches, splits, strips or measures      *)
(*     (input text, actions, task names, steps, triggers, person names) is  *)
(*     the sequence of its Unicode code points, e.g. "Ab" is <<65, 98>> and *)
(*     U+305F U+3089 ("tara") is <<12383, 12425>>.  len(), find(), split(), *)
(*     strip(), replace() and the "in" test are computed on that sequence.  *)
(*   - A Python str that the code only compares for equality or looks up    *)
(*     in a list (role names, task ids, issue codes, severities, log step   *)
(*     names) is a TLA+ string.                                             *)
(*   - dict -> record, list -> sequence, None -> the record field is the    *)
(*     empty value the code substitutes with "or".                          *)
(***************************************************************************)
EXTENDS Integers, Sequences, FiniteSets, TLC

\* A local variable: With(e, LAMBDA x : body) is "x = e", then body.
With(value, Body(_)) == Body(value)

(***************************************************************************)
(* Python string primitives on code point sequences                         *)
(***************************************************************************)

\* Code points for which str.isspace() is true: what str.strip() removes and
\* what the regular expression \s matches on str patterns.
WHITESPACE ==
  {9, 10, 11, 12, 13, 28, 29, 30, 31, 32, 133, 160, 5760}
    \cup (8192..8202) \cup {8232, 8233, 8239, 8287, 12288}

IsSpace(c) == c \in WHITESPACE

RECURSIVE LStrip(_)
LStrip(s) == IF s # <<>> /\ IsSpace(Head(s)) THEN LStrip(Tail(s)) ELSE s

RECURSIVE RStrip(_)
RStrip(s) ==
  IF s # <<>> /\ IsSpace(s[Len(s)]) THEN RStrip(SubSeq(s, 1, Len(s) - 1)) ELSE s

\* str.strip()
Strip(s) == RStrip(LStrip(s))

\* kw occurs in s at (1-based) position i
StartsAt(s, kw, i) ==
  /\ i + Len(kw) - 1 <= Len(s)
  /\ SubSeq(s, i, i + Len(kw) - 1) = kw

\* Python's  kw in s
Contains(s, kw) == \E i \in 1..(Len(s) - Len(kw) + 1) : StartsAt(s, kw, i)

\* str.find(kw): 0-based index of the leftmost occurrence, -1 when absent
Find(s, kw) ==
  IF Contains(s, kw)
  THEN (CHOOSE i \in 1..(Len(s) - Len(kw) + 1) :
          /\ StartsAt(s, kw, i)
          /\ \A j \in 1..(i - 1) : ~StartsAt(s, kw, j)) - 1
  ELSE -1

\* str.endswith(suffix)
EndsWith(s, suffix) ==
  /\ Len(suffix) <= Len(s)
  /\ SubSeq(s, Len(s) - Len(suffix) + 1, Len(s)) = suffix

\* str.split(sep) for a non-empty separator: left to right, non-overlapping,
\* empty pieces kept
RECURSIVE SplitOn(_, _)
SplitOn(s, sep) ==
  With(Find(s, sep), LAMBDA i :
    IF i = -1 THEN <<s>>
    ELSE <<SubSeq(s, 1, i)>> \o SplitOn(SubSeq(s, i + Len(sep) + 1, Len(s)), sep))

\* str.replace(old, new) for single characters
ReplaceChar(s, old, new) == [k \in 1..Len(s) |-> IF s[k] = old THEN new ELSE s[k]]

\* str.replace(" ", "")
RemoveSpaces(s) == SelectSeq(s, LAMBDA c : c # 32)

\* str.replace(old, "", 1): the leftmost occurrence of old removed
RemoveFirst(s, old) ==
  With(Find(s, old), LAMBDA i :
    IF i = -1 \/ old = <<>> THEN s
    ELSE SubSeq(s, 1, i) \o SubSeq(s, i + Len(old) + 1, Len(s)))

\* re.sub(r"\s+", " ", s): every maximal run of whitespace becomes one space
RECURSIVE ReSubSpaces(_)
ReSubSpaces(s) ==
  IF s = <<>> THEN <<>>
  ELSE IF IsSpace(Head(s)) THEN <<32>> \o ReSubSpaces(LStrip(s))
  ELSE <<Head(s)>> \o ReSubSpaces(Tail(s))

\* " ".join(parts)
RECURSIVE JoinSpace(_)
JoinSpace(parts) ==
  IF parts = <<>> THEN <<>>
  ELSE IF Len(parts) = 1 THEN parts[1]
  ELSE parts[1] \o <<32>> \o JoinSpace(Tail(parts))

\* x in list
InList(x, list) == \E k \in 1..Len(list) : list[k] = x

\* Order-preserving removal of duplicates (_dedupe_keep_order, dict.fromkeys)
RECURSIVE DedupeFrom(_, _)
DedupeFrom(items, seen) ==
  IF items = <<>> THEN <<>>
  ELSE IF Head(items) \in seen THEN DedupeFrom(Tail(items), seen)
  ELSE <<Head(items)>> \o DedupeFrom(Tail(items), seen \cup {Head(items)})

_dedupe_keep_order(items) == DedupeFrom(items, {})

\* _contains_any(text, keywords) (text_splitter.py, validator.py, role_inference.py)
_contains_any(text, keywords) ==
  \E k \in 1..Len(keywords) : keywords[k] # <<>> /\ Contains(text, keywords[k])

(***************************************************************************)
(* Keyword tables and string constants of the program (code points)         *)
(***************************************************************************)

\* None, and a variable that holds no value yet
NoValue == [none |-> TRUE]

\* CONDITION_MARKERS: tara, nara, baai (U+5834 U+5408), ato/go (U+5F8C), shidai (U+6B21 U+7B2C)
CONDITION_MARKERS ==
  << <<12383, 12425>>,   \* -tara (when/if)
     <<12394, 12425>>,   \* -nara (if)
     <<22580, 21512>>,   \* baai (in case)
     <<24460>>,   \* ato/go (after)
     <<27425, 31532>> >>   \* shidai (as soon as)
\* NON_BUSINESS_KEYWORDS: the 15 greeting / small-talk keywords, in source order
NON_BUSINESS_KEYWORDS ==
  << <<12362, 12399, 12424, 12358>>,   \* ohayou
     <<12371, 12435, 12395, 12385, 12399>>,   \* konnichiha
     <<12371, 12435, 12400, 12435, 12399>>,   \* konbanha
     <<12362, 30130, 12428>>,   \* otsukare
     <<12372, 33510, 21172>>,   \* gokurou
     <<22833, 31036, 12375, 12414, 12377>>,   \* shitsurei shimasu
     <<12424, 12429, 12375, 12367>>,   \* yoroshiku
     <<22825, 27671>>,   \* tenki (weather)
     <<26257, 12356>>,   \* atsui
     <<23506, 12356>>,   \* samui
     <<20803, 27671>>,   \* genki
     <<35519, 23376>>,   \* choushi
     <<26368, 36817>>,   \* saikin
     <<33391, 12356, 12391, 12377, 12397>>,   \* yoi desu ne
     <<12391, 12377, 12397>> >>   \* desu ne
\* BUSINESS_KEYWORDS: the 20 business keywords, in source order
BUSINESS_KEYWORDS ==
  << <<30003, 35531>>,   \* shinsei (apply)
     <<25215, 35469>>,   \* shounin (approve)
     <<31934, 31639>>,   \* seisan (settle)
     <<25903, 25173>>,   \* shiharai (pay)
     <<35531, 27714>>,   \* seikyuu (bill)
     <<20381, 38972>>,   \* irai (request)
     <<36899, 32097>>,   \* renraku (contact)
     <<36890, 30693>>,   \* tsuuchi (notify)
     <<22577, 21578>>,   \* houkoku (report)
     <<25552, 20986>>,   \* teishutsu (submit)
     <<20316, 25104>>,   \* sakusei (create)
     <<26356, 26032>>,   \* koushin (update)
     <<30906, 35469>>,   \* kakunin (confirm)
     <<36865, 20184>>,   \* soufu (send)
     <<20849, 26377>>,   \* kyouyuu (share)
     <<25163, 37197>>,   \* tehai (arrange)
     <<28193, 12375, 12390>>,   \* watashite (hand over)
     <<28193, 12377>>,   \* watasu (hand over)
     <<23550, 24540>>,   \* taiou (handle)
     <<20966, 29702>> >>   \* shori (process)
\* separators of split_actions, in source order
SEPARATORS ==
  << <<12290>>,   \* kuten, full stop
     <<12289>>,   \* touten, comma
     <<12381, 12375, 12390>>,   \* soshite (and then)
     <<12414, 12383, 12399>>,   \* mataha (or)
     <<12362, 12424, 12403>>,   \* oyobi (and)
     <<21450, 12403>> >>   \* oyobi, kanji form
\* ROLE_KEYWORDS[Applicant]
ROLE_KEYWORDS_Applicant ==
  << <<30003, 35531>>,   \* shinsei (apply)
     <<30003, 36796, 12415>>,   \* moushikomi
     <<25552, 20986>>,   \* teishutsu (submit)
     <<36215, 31080>>,   \* kihyou
     <<20837, 21147>>,   \* nyuuryoku
     <<30331, 37682>> >>   \* touroku
\* ROLE_KEYWORDS[Approver]
ROLE_KEYWORDS_Approver ==
  << <<25215, 35469>>,   \* shounin (approve)
     <<27770, 35009>>,   \* kessai
     <<12524, 12499, 12517, 12540>>,   \* rebyuu (review)
     <<24046, 25147, 12375>> >>   \* sashimodoshi
\* ROLE_KEYWORDS[Accounting]
ROLE_KEYWORDS_Accounting ==
  << <<31934, 31639>>,   \* seisan (settle)
     <<25903, 25173>>,   \* shiharai (pay)
     <<35531, 27714>>,   \* seikyuu (bill)
     <<31435, 26367>>,   \* tatekae
     <<32076, 36027, 20966, 29702>>,   \* keihi shori
     <<20837, 37329>>,   \* nyuukin
     <<20181, 35379>> >>   \* shiwake
\* CONTACT_KEYWORDS
CONTACT_KEYWORDS ==
  << <<36899, 32097>>,   \* renraku (contact)
     <<36890, 30693>>,   \* tsuuchi (notify)
     <<20849, 26377>>,   \* kyouyuu (share)
     <<36865, 20184>>,   \* soufu (send)
     <<20253, 12360, 12390>>,   \* tsutaete
     <<30693, 12425, 12379, 12390>> >>   \* shirasete
\* COMPOUND_KEYWORDS
COMPOUND_KEYWORDS ==
  << <<12383, 12425>>,   \* -tara (when/if)
     <<12394, 12425>>,   \* -nara (if)
     <<22580, 21512>>,   \* baai (in case)
     <<24460>>,   \* ato/go (after)
     <<27425, 31532>>,   \* shidai (as soon as)
     <<12381, 12375, 12390>>,   \* soshite (and then)
     <<12414, 12383>>,   \* mata (also)
     <<12362, 12424, 12403>>,   \* oyobi (and)
     <<21450, 12403>> >>   \* oyobi, kanji form
\* TRIGGER_MARKERS
TRIGGER_MARKERS ==
  << <<12383, 12425>>,   \* -tara (when/if)
     <<12394, 12425>>,   \* -nara (if)
     <<22580, 21512>>,   \* baai (in case)
     <<24460>>,   \* ato/go (after)
     <<27425, 31532>> >>   \* shidai (as soon as)
STR_SHI == <<12375>>
STR_SURU == <<12377, 12427>>
STR_SAN == <<12373, 12435>>
STR_NI == <<12395>>
STR_TOUTEN == <<12289>>
STR_KUTEN == <<12290>>
\* 'Process request'
STR_PROCESS_REQUEST == <<80, 114, 111, 99, 101, 115, 115, 32, 114, 101, 113, 117, 101, 115, 116>>
\* 'Review input'
STR_REVIEW_INPUT == <<82, 101, 118, 105, 101, 119, 32, 105, 110, 112, 117, 116>>
\* 'Record outcome'
STR_RECORD_OUTCOME == <<82, 101, 99, 111, 114, 100, 32, 111, 117, 116, 99, 111, 109, 101>>
\* 'Escalate if data is missing'
STR_ESCALATE == <<69, 115, 99, 97, 108, 97, 116, 101, 32, 105, 102, 32, 100, 97, 116, 97, 32, 105, 115, 32, 109, 105, 115, 115, 105, 110, 103>>
\* 'Notify requester'
STR_NOTIFY_REQUESTER == <<78, 111, 116, 105, 102, 121, 32, 114, 101, 113, 117, 101, 115, 116, 101, 114>>
\* 'input is empty'
STR_INPUT_IS_EMPTY == <<105, 110, 112, 117, 116, 32, 105, 115, 32, 101, 109, 112, 116, 121>>
\* 'input is complete'
STR_INPUT_IS_COMPLETE == <<105, 110, 112, 117, 116, 32, 105, 115, 32, 99, 111, 109, 112, 108, 101, 116, 101>>
\* 'missing required data'
STR_MISSING_REQUIRED_DATA == <<109, 105, 115, 115, 105, 110, 103, 32, 114, 101, 113, 117, 105, 114, 101, 100, 32, 100, 97, 116, 97>>
\* 'requester'
STR_REQUESTER == <<114, 101, 113, 117, 101, 115, 116, 101, 114>>
\* 'operator'
STR_OPERATOR == <<111, 112, 101, 114, 97, 116, 111, 114>>
\* 'Applicant'
STR_APPLICANT == <<65, 112, 112, 108, 105, 99, 97, 110, 116>>
\* 'Approver'
STR_APPROVER == <<65, 112, 112, 114, 111, 118, 101, 114>>
\* 'Accounting'
STR_ACCOUNTING == <<65, 99, 99, 111, 117, 110, 116, 105, 110, 103>>
\* 'Operator'
STR_OPERATOR_ROLE == <<79, 112, 101, 114, 97, 116, 111, 114>>
\* 'Submit requests'
STR_SUBMIT_REQUESTS == <<83, 117, 98, 109, 105, 116, 32, 114, 101, 113, 117, 101, 115, 116, 115>>
\* 'Communicate results'
STR_COMMUNICATE_RESULTS == <<67, 111, 109, 109, 117, 110, 105, 99, 97, 116, 101, 32, 114, 101, 115, 117, 108, 116, 115>>
\* 'Approve or reject requests'
STR_APPROVE_OR_REJECT == <<65, 112, 112, 114, 111, 118, 101, 32, 111, 114, 32, 114, 101, 106, 101, 99, 116, 32, 114, 101, 113, 117, 101, 115, 116, 115>>
\* 'Process reimbursements and accounting entries'
STR_PROCESS_REIMBURSEMENTS == <<80, 114, 111, 99, 101, 115, 115, 32, 114, 101, 105, 109, 98, 117, 114, 115, 101, 109, 101, 110, 116, 115, 32, 97, 110, 100, 32, 97, 99, 99, 111, 117, 110, 116, 105, 110, 103, 32, 101, 110, 116, 114, 105, 101, 115>>
\* 'Handle requests'
STR_HANDLE_REQUESTS == <<72, 97, 110, 100, 108, 101, 32, 114, 101, 113, 117, 101, 115, 116, 115>>
\* 'Handle incoming requests'
STR_HANDLE_INCOMING == <<72, 97, 110, 100, 108, 101, 32, 105, 110, 99, 111, 109, 105, 110, 103, 32, 114, 101, 113, 117, 101, 115, 116, 115>>
\* 'Untitled Process'
STR_UNTITLED_PROCESS == <<85, 110, 116, 105, 116, 108, 101, 100, 32, 80, 114, 111, 99, 101, 115, 115>>
\* 'when request is received'
STR_WHEN_REQUEST_RECEIVED == <<119, 104, 101, 110, 32, 114, 101, 113, 117, 101, 115, 116, 32, 105, 115, 32, 114, 101, 99, 101, 105, 118, 101, 100>>
\* 'Generated business definition for: '
STR_GENERATED_FOR == <<71, 101, 110, 101, 114, 97, 116, 101, 100, 32, 98, 117, 115, 105, 110, 101, 115, 115, 32, 100, 101, 102, 105, 110, 105, 116, 105, 111, 110, 32, 102, 111, 114, 58, 32>>
\* '...'
STR_ELLIPSIS == <<46, 46, 46>>
\* Approve expenses  (tests/test_orchestrator.py line 41)
TEXT_APPROVE_EXPENSES == <<65, 112, 112, 114, 111, 118, 101, 32, 101, 120, 112, 101, 110, 115, 101, 115>>
\* \u78BA\u8A8D\u3057\u305F\u3089\u9001\u4ED8\u3059\u308B  (kakunin shitara soufu suru: one action holding a conditional clause)
TEXT_CONFIRM_THEN_SEND == <<30906, 35469, 12375, 12383, 12425, 36865, 20184, 12377, 12427>>
\* \u304A\u306F\u3088\u3046  (ohayou: a greeting only, kept by the filter fallback)
TEXT_GREETING == <<12362, 12399, 12424, 12358>>
\* \u7D4C\u8CBB\u3092\u7533\u8ACB\u3057\u3001\u627F\u8A8D\u3055\u308C\u305F\u3089\u7CBE\u7B97\u3057\u3001\u901A\u77E5\u3059\u308B  (tests/test_orchestrator.py line 72)
TEXT_EXPENSE_FLOW == <<32076, 36027, 12434, 30003, 35531, 12375, 12289, 25215, 35469, 12373, 12428, 12383, 12425, 31934, 31639, 12375, 12289, 36890, 30693, 12377, 12427>>
\* \u7D4C\u8CBB\u3092\u7533\u8ACB\u3057\u3001\u627F\u8A8D\u3055\u308C\u305F\u3089\u7CBE\u7B97\u3057\u3001\u9234\u6728\u3055\u3093\u306B\u9023\u7D61\u3057\u3066\u4E0B\u3055\u3044\u3002  (tests/test_orchestrator.py line 177)
TEXT_EXPENSE_SUZUKI == <<32076, 36027, 12434, 30003, 35531, 12375, 12289, 25215, 35469, 12373, 12428, 12383, 12425, 31934, 31639, 12375, 12289, 37428, 26408, 12373, 12435, 12395, 36899, 32097, 12375, 12390, 19979, 12373, 12356, 12290>>
\* \u7530\u4E2D\u3055\u3093\u304A\u306F\u3088\u3046\u3054\u3056\u3044\u307E\u3059\u3002\u4ECA\u65E5\u306F\u5929\u6C17\u304C\u826F\u3044\u3067\u3059\u3002\u7D4C\u8CBB\u3092\u627F\u8A8D\u3055\u308C\u305F\u3089\u7CBE\u7B97\u3057\u3001\u9234\u6728\u3055\u3093\u306B\u6E21\u3057\u3066\u304F\u3060\u3055\u3044\u3002  (tests/test_orchestrator.py lines 106-107)
TEXT_GREETING_FLOW == <<30000, 20013, 12373, 12435, 12362, 12399, 12424, 12358, 12372, 12374, 12356, 12414, 12377, 12290, 20170, 26085, 12399, 22825, 27671, 12364, 33391, 12356, 12391, 12377, 12290, 32076, 36027, 12434, 25215, 35469, 12373, 12428, 12383, 12425, 31934, 31639, 12375, 12289, 37428, 26408, 12373, 12435, 12395, 28193, 12375, 12390, 12367, 12384, 12373, 12356, 12290>>
\* \u767A\u6CE8\u3059\u308B  (hacchuu suru: tests/test_validator.py line 96)
TEXT_ORDER == <<30330, 27880, 12377, 12427>>
\* \u7D4C\u8CBB\u3092\u7533\u8ACB\u3057\u3001\u627F\u8A8D\u3055\u308C\u305F\u3089\u7CBE\u7B97\u3059\u308B  (tests/test_validator.py line 49)
TEXT_APPLY_THEN_SETTLE == <<32076, 36027, 12434, 30003, 35531, 12375, 12289, 25215, 35469, 12373, 12428, 12383, 12425, 31934, 31639, 12377, 12427>>
\* \u627F\u8A8D\u3055\u308C\u305F\u3089\u7CBE\u7B97\u3059\u308B  (shounin saretara seisan suru: a conditional clause and an action)
TEXT_SETTLE_WHEN_APPROVED == <<25215, 35469, 12373, 12428, 12383, 12425, 31934, 31639, 12377, 12427>>
\* \u627F\u8A8D\u3055\u308C\u305F\u3089  (shounin saretara: a conditional clause alone)
TEXT_WHEN_APPROVED == <<25215, 35469, 12373, 12428, 12383, 12425>>
\* \u7D4C\u8CBB\u3092\u7533\u8ACB\u3059\u308B  (keihi wo shinsei suru)
TEXT_APPLY == <<32076, 36027, 12434, 30003, 35531, 12377, 12427>>
\* \u901A\u77E5\u3059\u308B  (tsuuchi suru: a contact action naming nobody)
TEXT_NOTIFY == <<36890, 30693, 12377, 12427>>
\* \u9234\u6728\u3055\u3093\u306B\u9023\u7D61\u3059\u308B  (Suzuki-san ni renraku suru: a contact action naming its person)
TEXT_CONTACT_SUZUKI == <<37428, 26408, 12373, 12435, 12395, 36899, 32097, 12377, 12427>>
\* \u304A\u306F\u3088\u3046\u3002\u7CBE\u7B97\u3059\u308B  (ohayou. seisan suru: a greeting the filter removes and one business action)
TEXT_GREETING_THEN_SETTLE == <<12362, 12399, 12424, 12358, 12290, 31934, 31639, 12377, 12427>>
\* \u9234\u6728\u3055\u3093\u304A\u306F\u3088\u3046\u3002\u9023\u7D61\u3057\u3001\u901A\u77E5\u3059\u308B  (Suzuki-san ohayou. renraku shi, tsuuchi suru: a person in a greeting, two contact actions naming nobody)
TEXT_TWO_CONTACTS == <<37428, 26408, 12373, 12435, 12362, 12399, 12424, 12358, 12290, 36899, 32097, 12375, 12289, 36890, 30693, 12377, 12427>>
\* \u6C7A\u88C1\u3059\u308B\u3002\u7D4C\u8CBB\u3092\u6C7A\u88C1\u3057\u305F\u3089\u5831\u544A\u3059\u308B  (kessai suru. keihi wo kessai shitara houkoku suru: a short phrase the filter removes, then an Approver action)
TEXT_SANCTION_THEN_REPORT == <<27770, 35009, 12377, 12427, 12290, 32076, 36027, 12434, 27770, 35009, 12375, 12383, 12425, 22577, 21578, 12377, 12427>>
\* \u7533\u8ACB\u3002\u627F\u8A8D  (shinsei. shounin: two clauses too short to be actions, with keywords of two roles)
TEXT_APPLY_APPROVE == <<30003, 35531, 12290, 25215, 35469>>
\* \u5F8C\u306B\u3001\u78BA\u8A8D  (ato ni, kakunin: no action, and a condition at the head of the text)
TEXT_AFTER_CONFIRM == <<24460, 12395, 12289, 30906, 35469>>
\* \u9234\u6728\u3055\u3093\u304A\u306F\u3088\u3046\u3002\u78BA\u8A8D\u3057\u305F\u3089\u901A\u77E5\u3059\u308B  (Suzuki-san ohayou. kakunin shitara tsuuchi suru: a person in a greeting the filter removes, and one conditional contact action naming nobody)
TEXT_SUZUKI_THEN_NOTIFY == <<37428, 26408, 12373, 12435, 12362, 12399, 12424, 12358, 12290, 30906, 35469, 12375, 12383, 12425, 36890, 30693, 12377, 12427>>
\* \u9234\u6728\u3055\u3093\u306B\u9023\u7D61\u3057\u3066\u901A\u77E5\u3059\u308B\u3002\u7530\u4E2D\u3055\u3093\u306B\u5171\u6709\u3057\u3066\u9001\u4ED8\u3059\u308B  (Suzuki-san ni renraku shite tsuuchi suru. Tanaka-san ni kyouyuu shite soufu suru: two actions, each with its own two contact keywords)
TEXT_TWO_CONTACT_PAIRS == <<37428, 26408, 12373, 12435, 12395, 36899, 32097, 12375, 12390, 36890, 30693, 12377, 12427, 12290, 30000, 20013, 12373, 12435, 12395, 20849, 26377, 12375, 12390, 36865, 20184, 12377, 12427>>
\* \u5171\u6709\u3057\u3001\u9001\u4ED8\u3057\u3066\u4F1D\u3048\u3066\u77E5\u3089\u305B\u3066\u4E0B\u3055\u3044  (kyouyuu shi, soufu shite tsutaete shirasete kudasai: an action with three contact keywords)
TEXT_THREE_CONTACTS == <<20849, 26377, 12375, 12289, 36865, 20184, 12375, 12390, 20253, 12360, 12390, 30693, 12425, 12379, 12390, 19979, 12373, 12356>>

\* The inputs of convert the pipeline is run on: the inputs of the
\* repository's tests and inputs that reach the other branches.
Texts ==
  {TEXT_APPROVE_EXPENSES, TEXT_CONFIRM_THEN_SEND, TEXT_GREETING,
   TEXT_EXPENSE_FLOW, TEXT_EXPENSE_SUZUKI, TEXT_GREETING_FLOW,
   TEXT_ORDER, TEXT_APPLY_THEN_SETTLE, TEXT_SETTLE_WHEN_APPROVED,
   TEXT_WHEN_APPROVED, TEXT_APPLY, TEXT_NOTIFY,
   TEXT_CONTACT_SUZUKI, TEXT_GREETING_THEN_SETTLE, TEXT_TWO_CONTACTS,
   TEXT_SANCTION_THEN_REPORT, TEXT_APPLY_APPROVE, TEXT_AFTER_CONFIRM,
   TEXT_SUZUKI_THEN_NOTIFY, TEXT_TWO_CONTACT_PAIRS, TEXT_THREE_CONTACTS,
   \*   (empty input)
   <<>>,
   \*   (blank input)
   <<32, 32, 32>>,
   \*   (tab, newline, ideographic space)
   <<9, 10, 12288>>,
   \* \u304A\u306F\u3088\u3046\u3054\u3056\u3044\u307E\u3059\u3002\u4ECA\u65E5\u306F\u5929\u6C17\u304C\u826F\u3044\u3067\u3059  (two greetings)
   <<12362, 12399, 12424, 12358, 12372, 12374, 12356, 12414, 12377, 12290, 20170, 26085, 12399, 22825, 27671, 12364, 33391, 12356, 12391, 12377>>,
   \* \u627F\u8A8D\u5F8C\u306B\u7CBE\u7B97\u3059\u308B  (shounin go ni seisan suru)
   <<25215, 35469, 24460, 12395, 31934, 31639, 12377, 12427>>,
   \* \u78BA\u8A8D\u3057\u305F\u5F8C  (kakunin shita ato: a marker with nothing after it)
   <<30906, 35469, 12375, 12383, 24460>>,
   \* \u7530\u4E2D\u3055\u3093\u306B\u9023\u7D61\u3057\u3001\u9234\u6728\u3055\u3093\u306B\u901A\u77E5\u3059\u308B  (two contact actions, each naming its person)
   <<30000, 20013, 12373, 12435, 12395, 36899, 32097, 12375, 12289, 37428, 26408, 12373, 12435, 12395, 36890, 30693, 12377, 12427>>,
   \* \u7530\u4E2D\u3055\u3093\u306B\u9023\u7D61\u3057\u3001\u901A\u77E5\u3059\u308B  (the second contact action names nobody)
   <<30000, 20013, 12373, 12435, 12395, 36899, 32097, 12375, 12289, 36890, 30693, 12377, 12427>>,
   \* \u305F\u3089  (a bare marker)
   <<12383, 12425>>,
   \* \u767A\u6CE8\u3057\u305F\u3089\u7D0D\u54C1\u3092\u5F85\u3064\u3053\u3068\u306B\u3059\u308B  (no business keyword, a marker, long enough to be kept)
   <<30330, 27880, 12375, 12383, 12425, 32013, 21697, 12434, 24453, 12388, 12371, 12392, 12395, 12377, 12427>>,
   \* \u8CC7\u6599\u3092\u78BA\u8A8D\u3057\u305F\u3089\u7530\u4E2D\u3055\u3093\u306B\u9001\u4ED8\u3059\u308B  (a conditional contact action naming Tanaka)
   <<36039, 26009, 12434, 30906, 35469, 12375, 12383, 12425, 30000, 20013, 12373, 12435, 12395, 36865, 20184, 12377, 12427>>,
   \* \u4ECA\u65E5\u306F\u5929\u6C17\u304C\u826F\u3044\u3067\u3059\u306D\u3001\u5143\u6C17\u3067\u3059\u304B  (small talk with a comma)
   <<20170, 26085, 12399, 22825, 27671, 12364, 33391, 12356, 12391, 12377, 12397, 12289, 20803, 27671, 12391, 12377, 12363>>,
   \* \u9234\u6728\u3055\u3093\u306B\u9023\u7D61\u3057\u3066\u901A\u77E5\u3059\u308B  (two contact keywords in one action)
   <<37428, 26408, 12373, 12435, 12395, 36899, 32097, 12375, 12390, 36890, 30693, 12377, 12427>>,
   \* \u7533\u8ACB\u3092\u627F\u8A8D\u3057\u3066\u8ACB\u6C42\u3092\u652F\u6255  (keywords of all three roles in one action)
   <<30003, 35531, 12434, 25215, 35469, 12375, 12390, 35531, 27714, 12434, 25903, 25173>>,
   \* \u304A\u306F\u3088\u3046\u3001\u767A\u6CE8\u3059\u308B  (a greeting and a short action without keyword)
   <<12362, 12399, 12424, 12358, 12289, 30330, 27880, 12377, 12427>>}

(***************************************************************************)
(* services/text_splitter.py                                                *)
(***************************************************************************)

\* One pass of the separator loop: every fragment containing sep is replaced
\* by its pieces, the others are kept.
RECURSIVE SplitFragments(_, _)
SplitFragments(fragments, sep) ==
  IF fragments = <<>> THEN <<>>
  ELSE (IF Contains(Head(fragments), sep)
        THEN SplitOn(Head(fragments), sep)
        ELSE <<Head(fragments)>>) \o SplitFragments(Tail(fragments), sep)

\* A faulty variant: the fragments are split on the full stop only
SplitBySeparators_FullStopOnly(fragments, k) == SplitFragments(fragments, SEPARATORS[1])

\* The loop "for sep in separators" from separator number k on.
RECURSIVE SplitBySeparators(_, _)
SplitBySeparators(fragments, k) ==
  IF k > Len(SEPARATORS) THEN fragments
  ELSE SplitBySeparators(SplitFragments(fragments, SEPARATORS[k]), k + 1)

\* The candidate loop of split_actions: trim, drop fragments of at most two
\* non-space characters, rewrite a final "shi" to "suru".
RECURSIVE SplitCandidates(_)
SplitCandidates(fragments) ==
  IF fragments = <<>> THEN <<>>
  ELSE
    With(Strip(ReSubSpaces(Head(fragments))), LAMBDA normalized :
      (IF normalized = <<>> THEN <<>>
       ELSE IF Len(RemoveSpaces(normalized)) <= 2 THEN <<>>
       ELSE IF EndsWith(normalized, STR_SHI) /\ Len(normalized) > 2
            THEN <<SubSeq(normalized, 1, Len(normalized) - 1) \o STR_SURU>>
       ELSE <<normalized>>)
      \o SplitCandidates(Tail(fragments)))

split_actions(text) ==
  With(Strip(ReplaceChar(text, 12288, 32)), LAMBDA cleaned :
    IF cleaned = <<>> THEN <<>>
    ELSE _dedupe_keep_order(
           SplitCandidates(SplitBySeparators(<<ReSubSpaces(cleaned)>>, 1))))

\* (marker, pos) pairs of the markers that occur in cleaned, in marker order
MarkerPositions(cleaned) ==
  SelectSeq([k \in 1..Len(CONDITION_MARKERS) |->
               [marker |-> CONDITION_MARKERS[k],
                pos    |-> Find(cleaned, CONDITION_MARKERS[k])]],
            LAMBDA mp : mp.pos # -1)

\* A faulty variant: the first marker in marker order is taken
MinByPos_MarkerOrder(mps) == mps[1]

\* min(marker_positions, key=pos): the first entry, in list order, whose
\* position is minimal
MinByPos(mps) ==
  mps[CHOOSE k \in 1..Len(mps) :
        /\ \A j \in 1..Len(mps) : mps[k].pos <= mps[j].pos
        /\ \A j \in 1..(k - 1) : mps[j].pos > mps[k].pos]

\* The end of the trigger phrase: the marker's end, one further when the
\* marker is one of the two that take a following "ni" and it is there.
TriggerEnd(cleaned, marker, end_index) ==
  IF /\ marker \in {CONDITION_MARKERS[4], CONDITION_MARKERS[5]}
     /\ end_index < Len(cleaned)
     /\ cleaned[end_index + 1] = STR_NI[1]
  THEN end_index + 1
  ELSE end_index

extract_trigger_phrase(action) ==
  With(Strip(action), LAMBDA cleaned :
    IF cleaned = <<>> THEN <<>>
    ELSE
      With(MarkerPositions(cleaned), LAMBDA marker_positions :
        IF marker_positions = <<>> THEN <<>>
        ELSE
          With(MinByPos(marker_positions), LAMBDA m :
            SubSeq(cleaned, 1, TriggerEnd(cleaned, m.marker, m.pos + Len(m.marker))))))

\* The loop of filter_business_actions
RECURSIVE FilterLoop(_)
FilterLoop(actions) ==
  IF actions = <<>> THEN <<>>
  ELSE
    With(Strip(Head(actions)), LAMBDA normalized :
      (IF normalized = <<>> THEN <<>>
       ELSE IF _contains_any(normalized, BUSINESS_KEYWORDS) THEN <<normalized>>
       ELSE IF _contains_any(normalized, NON_BUSINESS_KEYWORDS) THEN <<>>
       ELSE IF Len(RemoveSpaces(normalized)) < 8 THEN <<>>
       ELSE <<normalized>>)
      \o FilterLoop(Tail(actions)))

filter_business_actions(actions) == _dedupe_keep_order(FilterLoop(actions))

(***************************************************************************)
(* services/entity_extractor.py                                             *)
(***************************************************************************)

\* The character class of PERSON_PATTERN:
\*   U+4E00-U+9FA0, U+3005, U+3006, U+30F5, U+30F6, U+3041-U+3093, U+30A1-U+30F3
NameChar(c) ==
  \/ c \in 19968..40864
  \/ c \in {12293, 12294, 12533, 12534}
  \/ c \in 12353..12435
  \/ c \in 12449..12531

\* The length of the name the pattern matches at 0-based position p: the
\* longest run of 1..10 class characters that is followed by "san" (the
\* quantifier is greedy and backtracks), 0 when the pattern does not match at p.
MatchLenAt(s, p) ==
  With({n \in 1..10 : /\ p + n <= Len(s)
                      /\ \A k \in 1..n : NameChar(s[p + k])
                      /\ StartsAt(s, STR_SAN, p + n + 1)},
       LAMBDA lens :
         IF lens = {} THEN 0 ELSE CHOOSE n \in lens : \A m \in lens : m <= n)

\* PERSON_PATTERN.finditer(cleaned) with the seen_names filter, from 0-based
\* position p on
RECURSIVE FindPeople(_, _, _)
FindPeople(s, p, seen_names) ==
  IF p >= Len(s) THEN <<>>
  ELSE
    With(MatchLenAt(s, p), LAMBDA n :
      IF n = 0 THEN FindPeople(s, p + 1, seen_names)
      ELSE
        With(SubSeq(s, p + 1, p + n), LAMBDA name :
          IF name \in seen_names
          THEN FindPeople(s, p + n + Len(STR_SAN), seen_names)
          ELSE <<[name    |-> name,
                  surface |-> SubSeq(s, p + 1, p + n + Len(STR_SAN)),
                  type    |-> "person"]>>
                 \o FindPeople(s, p + n + Len(STR_SAN), seen_names \cup {name})))

extract_entities_ja(text) ==
  [people  |-> With(Strip(text), LAMBDA cleaned :
                 IF cleaned # <<>> THEN FindPeople(cleaned, 0, {}) ELSE <<>>),
   orgs    |-> <<>>,
   amounts |-> <<>>,
   dates   |-> <<>>]

(***************************************************************************)
(* services/role_inference.py                                               *)
(***************************************************************************)

ROLE_KEYWORDS(role) ==
  CASE role = "Applicant"  -> ROLE_KEYWORDS_Applicant
    [] role = "Approver"   -> ROLE_KEYWORDS_Approver
    [] role = "Accounting" -> ROLE_KEYWORDS_Accounting

ROLE_PRIORITY == <<"Approver", "Accounting", "Applicant">>

ROLE_RESPONSIBILITIES(role) ==
  CASE role = "Applicant"  -> <<STR_SUBMIT_REQUESTS, STR_COMMUNICATE_RESULTS>>
    [] role = "Approver"   -> <<STR_APPROVE_OR_REJECT>>
    [] role = "Accounting" -> <<STR_PROCESS_REIMBURSEMENTS>>
    [] OTHER               -> <<STR_HANDLE_REQUESTS>>

\* [kw for kw in keywords if kw in cleaned]
MatchedIn(keywords, cleaned) == SelectSeq(keywords, LAMBDA kw : Contains(cleaned, kw))

\* The positions in CONTACT_KEYWORDS of the keywords of a list
PositionsOf(contact_matches) ==
  {k \in 1..Len(CONTACT_KEYWORDS) : InList(CONTACT_KEYWORDS[k], contact_matches)}

\* The orders a set may be iterated in: the sequences that hold each of its
\* elements once
Orders(set) ==
  {order \in [1..Cardinality(set) -> set] :
     \A j, k \in 1..Cardinality(set) : order[j] = order[k] => j = k}

\* list({*matched["Applicant"], *contact_matches}): the elements of a set of
\* strings in the iteration order of this process.  That order depends on the
\* interpreter's string hashing and on the elements the set holds; it is the
\* same whenever the process builds the same set.  hash_order maps the set
\* (as positions of CONTACT_KEYWORDS) to its order (ROLE_KEYWORDS["Applicant"]
\* matched nothing where this is evaluated, so the set holds contact keywords
\* only).  A set of one keyword has one order.
SetAsList(contact_matches, hash_order) ==
  IF Len(contact_matches) < 2 THEN contact_matches
  ELSE [k \in 1..Len(contact_matches) |->
          CONTACT_KEYWORDS[hash_order[PositionsOf(contact_matches)][k]]]

\* Returns [roles, matched]; matched maps each role name to its keyword list.
InferFrom(matched, contact_matches, hash_order) ==
  With(SelectSeq(ROLE_PRIORITY, LAMBDA role : matched[role] # <<>>), LAMBDA roles :
    IF roles = <<>> /\ contact_matches # <<>>
    THEN [roles   |-> <<"Applicant">>,
          matched |-> [matched EXCEPT
                         !["Applicant"] = SetAsList(contact_matches, hash_order)]]
    ELSE IF roles = <<>>
    THEN [roles |-> <<"Applicant">>, matched |-> matched]
    ELSE [roles |-> roles, matched |-> matched])

infer_roles_with_keywords(action, hash_order) ==
  With(Strip(action), LAMBDA cleaned :
    InferFrom([role \in {"Applicant", "Approver", "Accounting"} |->
                 MatchedIn(ROLE_KEYWORDS(role), cleaned)],
              MatchedIn(CONTACT_KEYWORDS, cleaned),
              hash_order))

\* The set of two or more keywords line 85 builds for an action: none when a
\* role keyword matched or fewer than two contact keywords did
ListedSets(action) ==
  With(Strip(action), LAMBDA cleaned :
    IF /\ \A role \in {"Applicant", "Approver", "Accounting"} :
            MatchedIn(ROLE_KEYWORDS(role), cleaned) = <<>>
       /\ Len(MatchedIn(CONTACT_KEYWORDS, cleaned)) >= 2
    THEN {PositionsOf(MatchedIn(CONTACT_KEYWORDS, cleaned))}
    ELSE {})

\* hash_order once the process has also listed the given sets: the orders it
\* used before are kept, every new set has any one of its orders
Extensions(hash_order, sets) ==
  {[set \in DOMAIN hash_order \cup sets |->
      IF set \in DOMAIN hash_order THEN hash_order[set] ELSE new[set]] :
     new \in {f \in [sets \ DOMAIN hash_order ->
                       UNION {Orders(set) : set \in sets \ DOMAIN hash_order}] :
                \A set \in sets \ DOMAIN hash_order : f[set] \in Orders(set)}}

\* hash_order before the process has listed any set
NoOrders == [set \in {} |-> <<>>]

\* A faulty variant: a role definition for every task, repeated roles included
build_role_definitions_NoDedupe(roles) ==
  [k \in 1..Len(roles) |->
     [name             |-> roles[k],
      responsibilities |-> ROLE_RESPONSIBILITIES(roles[k])]]

build_role_definitions(roles) ==
  With(_dedupe_keep_order(roles), LAMBDA unique_roles :
    [k \in 1..Len(unique_roles) |->
       [name             |-> unique_roles[k],
        responsibilities |-> ROLE_RESPONSIBILITIES(unique_roles[k])]])
(***************************************************************************)
(* The LLM collaborator: agent/llm.py and the three call sites               *)
(* (LLM_PROVIDER and GCP_PROJECT_ID are set wherever LLM_ENABLED is)         *)
(***************************************************************************)

\* The dict a response text holds
LlmPayload(actions, conditions, role_hints, title, overview) ==
  [actions |-> actions, conditions |-> conditions, role_hints |-> role_hints,
   title |-> title, overview |-> overview]

EmptyPayload == LlmPayload(<<>>, <<>>, <<>>, <<>>, <<>>)

\* What one call of llm_generate does: it raises the exception named by
\* raises, or it returns a text of the shape named by json
\*   none: None or ""           no_object: no "{" before a "}"
\*   malformed: json.loads raises JSONDecodeError on the text between the
\*              first "{" and the last "}" (payload is what the text was
\*              meant to hold)
\*   object: a JSON object, whose dict is payload ({} when payload is empty)
LlmResponse(raises, json, payload) ==
  [raises |-> raises, json |-> json, payload |-> payload]

\* llm_generate was not called
NotCalled == LlmResponse("", "not_called", EmptyPayload)

\* A faulty variant: whatever the text holds is taken for its dict
_extract_json_object_Lenient(response) == response.payload

\* _extract_json_object of the three agents: the dict, or None
_extract_json_object(response) ==
  IF response.json = "object" THEN response.payload ELSE NoValue

\* "not payload": None or {}
NotPayload(payload) == payload = NoValue \/ payload = EmptyPayload

\* ReaderAgent._filter_phrases_in_text and PlannerAgent._filter_actions_in_text
\* from the loop on, with the results collected so far
RECURSIVE PhrasesInText(_, _, _, _)
PhrasesInText(phrases, input_text, limit, results) ==
  IF phrases = <<>> \/ Len(results) >= limit THEN results
  ELSE With(Strip(Head(phrases)), LAMBDA candidate :
         PhrasesInText(Tail(phrases), input_text, limit,
                       IF /\ candidate # <<>>
                          /\ Contains(input_text, candidate)
                          /\ ~InList(candidate, results)
                       THEN Append(results, candidate) ELSE results))

\* ReaderAgent._filter_phrases_in_text
_filter_phrases_in_text(phrases, input_text, limit) ==
  PhrasesInText(phrases, input_text, limit, <<>>)

\* PlannerAgent._filter_actions_in_text
_filter_actions_in_text(actions, input_text, limit) ==
  PhrasesInText(actions, input_text, limit, <<>>)

\* allowed_roles of PlannerAgent._filter_role_hints
allowed_roles == {"Applicant", "Approver", "Accounting", "Operator"}

\* The text of a role name
RoleText(role) ==
  CASE role = "Applicant"  -> STR_APPLICANT
    [] role = "Approver"   -> STR_APPROVER
    [] role = "Accounting" -> STR_ACCOUNTING
    [] role = "Operator"   -> STR_OPERATOR_ROLE

\* The role a stripped text names, "" when it is empty or names no allowed role
AllowedRole(role) ==
  IF \E allowed \in allowed_roles : RoleText(allowed) = role
  THEN CHOOSE allowed \in allowed_roles : RoleText(allowed) = role
  ELSE ""

\* PlannerAgent._filter_role_hints: action and role are stripped, then a hint
\* is kept when neither is empty, the action is in the text and the role is
\* allowed
_filter_role_hints(role_hints, input_text) ==
  SelectSeq([k \in 1..Len(role_hints) |->
               [action |-> Strip(role_hints[k].action),
                role   |-> AllowedRole(Strip(role_hints[k].role))]],
            LAMBDA hint :
              /\ hint.action # <<>>
              /\ hint.role # ""
              /\ Contains(input_text, hint.action))

\* _merge_unique of the Reader and of the Planner, from the loop on
RECURSIVE MergeInto(_, _)
MergeInto(merged, items) ==
  IF items = <<>> THEN merged
  ELSE MergeInto(IF Head(items) # <<>> /\ ~InList(Head(items), merged)
                 THEN Append(merged, Head(items)) ELSE merged,
                 Tail(items))

_merge_unique(base, extra) == MergeInto(<<>>, base \o extra)

\* GeneratorAgent._normalize_llm_text
_normalize_llm_text(value, limit) ==
  With(Strip(value), LAMBDA cleaned :
    IF Len(cleaned) > limit THEN SubSeq(cleaned, 1, limit - 3) \o STR_ELLIPSIS
    ELSE cleaned)

\* The llm_usage dict of a call site (its provider, model and prompt_version
\* entries are constant strings); error is "" for None
LlmUsage(feature, enabled, used, error, added) ==
  [feature |-> feature, enabled |-> enabled, used |-> used, error |-> error,
   added |-> added]

\* What the three _maybe_..._with_llm return when the call has failed
LlmFailed(feature, error, added) ==
  [actions |-> <<>>, conditions |-> <<>>, role_hints |-> <<>>,
   title |-> <<>>, overview |-> <<>>,
   usage |-> LlmUsage(feature, TRUE, FALSE, error, added)]

\* What the three _maybe_..._with_llm return when the stage has no LLM
LlmDisabled(feature, added) ==
  [actions |-> <<>>, conditions |-> <<>>, role_hints |-> <<>>,
   title |-> <<>>, overview |-> <<>>,
   usage |-> LlmUsage(feature, FALSE, FALSE, "", added)]

\* The error a failed call is recorded with: the exception's class name, or
\* "invalid_response"
FailureOf(response) ==
  IF response.raises # "" THEN response.raises ELSE "invalid_response"

\* Whether the try block of a call site is left before the payload is read
CallFails(response) ==
  response.raises # "" \/ NotPayload(_extract_json_object(response))

\* ReaderAgent._maybe_enhance_actions_with_llm, the try block once the payload
\* is there
ReaderEnhanced(payload, cleaned) ==
  With(_filter_phrases_in_text(payload.actions, cleaned, 20), LAMBDA in_text :
    With(filter_business_actions(in_text), LAMBDA filtered_actions :
      With(IF filtered_actions # <<>> THEN filtered_actions ELSE in_text,
           LAMBDA llm_actions :
        With(_filter_phrases_in_text(payload.conditions, cleaned, 10),
             LAMBDA llm_conditions :
          [actions |-> llm_actions, conditions |-> llm_conditions,
           role_hints |-> <<>>, title |-> <<>>, overview |-> <<>>,
           usage |-> LlmUsage("reader_actions", TRUE, TRUE, "",
                              [added_actions    |-> Len(llm_actions),
                               added_conditions |-> Len(llm_conditions)])]))))

ReaderAdded == [added_actions |-> 0, added_conditions |-> 0]

\* ReaderAgent._maybe_enhance_actions_with_llm
_maybe_enhance_actions_with_llm(enabled, input_text, response) ==
  IF ~enabled THEN LlmDisabled("reader_actions", ReaderAdded)
  ELSE IF Strip(input_text) = <<>>
  THEN LlmFailed("reader_actions", "empty_text", ReaderAdded)
  ELSE IF CallFails(response)
  THEN LlmFailed("reader_actions", FailureOf(response), ReaderAdded)
  ELSE ReaderEnhanced(_extract_json_object(response), Strip(input_text))

PlannerAdded == [added_actions |-> 0, role_hints |-> 0]

\* PlannerAgent._maybe_refine_with_llm, the try block once the payload is there
PlannerRefined(payload, cleaned) ==
  With(_filter_actions_in_text(payload.actions, cleaned, 20), LAMBDA llm_actions :
    With(_filter_role_hints(payload.role_hints, cleaned), LAMBDA llm_role_hints :
      [actions |-> llm_actions, conditions |-> <<>>,
       role_hints |-> llm_role_hints, title |-> <<>>, overview |-> <<>>,
       usage |-> LlmUsage("planner_roles", TRUE, TRUE, "",
                          [added_actions |-> Len(llm_actions),
                           role_hints    |-> Len(llm_role_hints)])]))

\* PlannerAgent._maybe_refine_with_llm
_maybe_refine_with_llm(enabled, input_text, response) ==
  IF ~enabled THEN LlmDisabled("planner_roles", PlannerAdded)
  ELSE IF Strip(input_text) = <<>>
  THEN LlmFailed("planner_roles", "empty_text", PlannerAdded)
  ELSE IF CallFails(response)
  THEN LlmFailed("planner_roles", FailureOf(response), PlannerAdded)
  ELSE PlannerRefined(_extract_json_object(response), Strip(input_text))

\* GeneratorAgent._maybe_generate_title_overview_with_llm, the try block once
\* the payload is there
GeneratorTitled(llm_title, llm_overview) ==
  IF llm_title = <<>> \/ llm_overview = <<>>
  THEN LlmFailed("title_overview", "missing_fields", NoValue)
  ELSE [actions |-> <<>>, conditions |-> <<>>, role_hints |-> <<>>,
        title |-> llm_title, overview |-> llm_overview,
        usage |-> LlmUsage("title_overview", TRUE, TRUE, "", NoValue)]

\* GeneratorAgent._maybe_generate_title_overview_with_llm
_maybe_generate_title_overview_with_llm(enabled, text, response) ==
  IF ~enabled THEN LlmDisabled("title_overview", NoValue)
  ELSE IF Strip(text) = <<>>
  THEN LlmFailed("title_overview", "empty_text", NoValue)
  ELSE IF CallFails(response)
  THEN LlmFailed("title_overview", FailureOf(response), NoValue)
  ELSE GeneratorTitled(_normalize_llm_text(_extract_json_object(response).title, 60),
                       _normalize_llm_text(_extract_json_object(response).overview, 120))

\* Whether llm_generate is reached: the stage has the LLM and the text it
\* passes on is not blank
Reaches(enabled, input_text) == enabled /\ Strip(input_text) # <<>>

\* A dict the LLM answers with: two actions, one of them in no input; a
\* condition; role hints, one with blanks around the role and one with a role
\* that is not allowed; a title and an overview
HintedPayload ==
  LlmPayload(<<TEXT_NOTIFY, TEXT_ORDER>>,
             <<TEXT_WHEN_APPROVED>>,
             <<[action |-> TEXT_NOTIFY, role |-> <<32>> \o STR_ACCOUNTING \o <<32>>],
               [action |-> TEXT_APPLY, role |-> STR_OPERATOR_ROLE],
               [action |-> TEXT_NOTIFY, role |-> STR_OPERATOR]>>,
             <<69, 120, 112, 101, 110, 115, 101, 115>>,
             <<79, 118, 101, 114, 118, 105, 101, 119>>)

\* A dict the LLM answers with: a business action and a greeting, nothing else
ActionOnlyPayload == LlmPayload(<<TEXT_APPLY, TEXT_GREETING>>, <<>>, <<>>, <<>>, <<>>)

\* What a call of llm_generate may do: raise, return nothing, return a text
\* without a JSON object, with a malformed one, with {}, or with a dict
LlmResponses ==
  { LlmResponse("RuntimeError", "none", EmptyPayload),
    LlmResponse("", "none", EmptyPayload),
    LlmResponse("", "no_object", EmptyPayload),
    LlmResponse("", "malformed", HintedPayload),
    LlmResponse("", "object", EmptyPayload),
    LlmResponse("", "object", HintedPayload),
    LlmResponse("", "object", ActionOnlyPayload) }


(***************************************************************************)
(* agent/reader.py                                                          *)
(***************************************************************************)

\* ReaderAgent._extract_conditions
_extract_conditions(actions) ==
  _dedupe_keep_order(
    SelectSeq([k \in 1..Len(actions) |-> extract_trigger_phrase(actions[k])],
              LAMBDA phrase : phrase # <<>>))

\* ReaderAgent._diff_actions
_diff_actions(raw, filtered) ==
  SelectSeq(raw, LAMBDA candidate : ~InList(candidate, filtered))

\* [person.get("name") for person in people if person.get("name")]
PersonNames(people) ==
  With(SelectSeq(people, LAMBDA person : person.name # <<>>), LAMBDA named :
    [k \in 1..Len(named) |-> named[k].name])

\* The dict ReaderAgent.run returns.  The keys retry_issues, force_task_split
\* and avoid_non_business are absent from it; they appear here with the values
\* that reader_out.get(...) yields for an absent key.
ReaderOut(cleaned, entity_names, entities_detail, actions, actions_raw, actions_filtered_out, fallback, assumptions, exceptions) ==
  [entities               |-> entity_names,
   entities_detail        |-> entities_detail,
   actions                |-> actions,
   actions_raw            |-> actions_raw,
   actions_filtered_out   |-> actions_filtered_out,
   action_filter_version  |-> "biz_v1",
   action_filter_fallback |-> fallback,
   conditions             |-> _extract_conditions(actions),
   exceptions             |-> exceptions,
   assumptions            |-> assumptions,
   input_text             |-> cleaned,
   splitter_version       |-> "ja_v1",
   retry_issues           |-> <<>>,
   force_task_split       |-> FALSE,
   avoid_non_business     |-> FALSE]

\* A faulty variant: the filtered list is kept even when it is empty
ReaderFiltered_NoFallback(cleaned, entities_detail, entity_names, actions_raw, actions_filtered) ==
  ReaderOut(cleaned,
            IF entity_names # <<>> THEN entity_names ELSE <<STR_REQUESTER, STR_OPERATOR>>,
            entities_detail, actions_filtered, actions_raw,
            _diff_actions(actions_raw, actions_filtered), FALSE,
            <<STR_INPUT_IS_COMPLETE>>, <<STR_MISSING_REQUIRED_DATA>>)

\* The part of ReaderAgent.run after the action filter.
ReaderFiltered(cleaned, entities_detail, entity_names, actions_raw, actions_filtered) ==
  With(actions_filtered = <<>> /\ actions_raw # <<>>, LAMBDA fallback :
    ReaderOut(cleaned,
              IF entity_names # <<>> THEN entity_names
              ELSE <<STR_REQUESTER, STR_OPERATOR>>,
              entities_detail,
              IF fallback THEN actions_raw ELSE actions_filtered,
              actions_raw,
              _diff_actions(actions_raw, actions_filtered),
              fallback,
              <<STR_INPUT_IS_COMPLETE>>,
              <<STR_MISSING_REQUIRED_DATA>>))

\* A faulty variant: a blank input is read like any other
ReaderAgent_run_NoBlankCase(text) ==
  With(Strip(text), LAMBDA cleaned :
    With(extract_entities_ja(cleaned), LAMBDA entities_detail :
      With(split_actions(cleaned), LAMBDA actions_raw :
        ReaderFiltered(cleaned, entities_detail,
                       PersonNames(entities_detail.people),
                       actions_raw, filter_business_actions(actions_raw)))))

\* ReaderAgent.run up to the call of _maybe_enhance_actions_with_llm, which is
\* all of it when LLM_ENABLED is unset
ReaderAgent_run(text) ==
  With(Strip(text), LAMBDA cleaned :
    IF cleaned = <<>>
    THEN ReaderOut(<<>>, <<>>,
                   [people |-> <<>>, orgs |-> <<>>, amounts |-> <<>>, dates |-> <<>>],
                   <<>>, <<>>, <<>>, FALSE, <<STR_INPUT_IS_EMPTY>>, <<>>)
    ELSE
      With(extract_entities_ja(cleaned), LAMBDA entities_detail :
        With(split_actions(cleaned), LAMBDA actions_raw :
          ReaderFiltered(cleaned, entities_detail,
                         PersonNames(entities_detail.people),
                         actions_raw, filter_business_actions(actions_raw)))))

\* ReaderAgent.run, lines 170-175: the LLM's actions and conditions are
\* merged into the dict r the rules have built
ReaderMerged(r, llm) ==
  With(IF llm.actions # <<>> /\ llm.conditions = <<>>
       THEN _extract_conditions(llm.actions) ELSE llm.conditions,
       LAMBDA llm_conditions :
    [r EXCEPT !.actions = IF llm.actions # <<>>
                          THEN _merge_unique(@, llm.actions) ELSE @,
              !.conditions = IF llm_conditions # <<>>
                             THEN _merge_unique(@, llm_conditions) ELSE @])

\* ReaderAgent.run given what _maybe_enhance_actions_with_llm returns when it
\* is called: a blank input returns before the call
ReaderRun(text, llm) ==
  IF Strip(text) = <<>> THEN ReaderAgent_run(text)
  ELSE ReaderMerged(ReaderAgent_run(text), llm)

(***************************************************************************)
(* agent/planner.py                                                         *)
(***************************************************************************)

\* A faulty variant: no task is given a trigger
_build_trigger_None(action) == <<>>

\* PlannerAgent._build_trigger
_build_trigger(action) ==
  With(extract_trigger_phrase(action), LAMBDA extracted :
    IF extracted # <<>> THEN extracted ELSE <<>>)

\* The tail of PlannerAgent._force_split_actions: the candidate, then what is
\* left of it once its trigger phrase is removed.
ForceSplitCandidate(candidate, trigger_phrase) ==
  With(Strip(RemoveFirst(candidate, trigger_phrase)), LAMBDA remainder :
    IF trigger_phrase # <<>> /\ remainder # <<>> /\ remainder # candidate
    THEN <<candidate, remainder>>
    ELSE <<candidate>>)

\* A faulty variant: the candidate is never split at its trigger phrase
_force_split_actions_NoSplit(action, input_text) ==
  IF Strip(action) # <<>> THEN <<Strip(action)>>
  ELSE IF Strip(input_text) # <<>> THEN <<Strip(input_text)>>
  ELSE <<STR_PROCESS_REQUEST>>

\* PlannerAgent._force_split_actions
_force_split_actions(action, input_text) ==
  With(IF Strip(action) # <<>> THEN Strip(action) ELSE Strip(input_text),
       LAMBDA candidate :
         IF candidate = <<>> THEN <<STR_PROCESS_REQUEST>>
         ELSE ForceSplitCandidate(candidate, extract_trigger_phrase(candidate)))

\* A faulty variant: every known person is a recipient of a contact task
_extract_recipients_Everyone(action, role_name, people) ==
  IF ~_contains_any(action, CONTACT_KEYWORDS) \/ role_name # "Applicant" THEN <<>>
  ELSE [k \in 1..Len(people) |->
          [type |-> "person", name |-> people[k].name, surface |-> people[k].surface]]

\* PlannerAgent._extract_recipients
_extract_recipients(action, role_name, people) ==
  IF ~_contains_any(action, CONTACT_KEYWORDS) \/ role_name # "Applicant" THEN <<>>
  ELSE With(SelectSeq(people, LAMBDA person :
              \/ (person.surface # <<>> /\ Contains(action, person.surface))
              \/ (person.name # <<>> /\ Contains(action, person.name))),
            LAMBDA named :
              [k \in 1..Len(named) |->
                 [type |-> "person", name |-> named[k].name,
                  surface |-> named[k].surface]])

\* A faulty variant: an action is given its first role only
_expand_actions_for_roles_FirstOnly(action, inferred_roles, matched_keywords) ==
  <<[role        |-> IF inferred_roles # <<>> THEN inferred_roles[1] ELSE "Applicant",
     task_action |-> action]>>

\* matched_keywords.get(role, [])
KeywordsOf(matched_keywords, role) ==
  IF role \in DOMAIN matched_keywords THEN matched_keywords[role] ELSE <<>>

\* PlannerAgent._expand_actions_for_roles
_expand_actions_for_roles(action, inferred_roles, matched_keywords) ==
  With(IF inferred_roles # <<>> THEN inferred_roles ELSE <<"Applicant">>, LAMBDA roles :
    [k \in 1..Len(roles) |->
       [role        |-> roles[k],
        task_action |-> IF roles[k] = "Approver"
                           /\ KeywordsOf(matched_keywords, roles[k]) # <<>>
                        THEN KeywordsOf(matched_keywords, roles[k])[1] \o STR_SURU
                        ELSE action]])

\* role_hint_map.get(action): the role of the last hint given for the action,
\* "" for None
RoleHint(action, role_hints) ==
  With(SelectSeq(role_hints, LAMBDA hint : hint.action = action), LAMBDA hints :
    IF hints = <<>> THEN "" ELSE hints[Len(hints)].role)

\* A faulty variant: the hint is recorded but the inferred roles are kept
Hinted_KeepInferred(inferred, role_hint) ==
  [roles   |-> inferred.roles,
   matched |-> inferred.matched,
   source  |-> IF role_hint # "" THEN "llm" ELSE "rules"]

\* lines 153-156: the roles inferred for an action, replaced by its hint
Hinted(inferred, role_hint) ==
  [roles   |-> IF role_hint # "" THEN <<role_hint>> ELSE inferred.roles,
   matched |-> inferred.matched,
   source  |-> IF role_hint # "" THEN "llm" ELSE "rules"]

\* What one pass of the outer loop of PlannerAgent.run reads for each of the
\* expansions of one action.
ExpandOne(action, inferred) ==
  With(_expand_actions_for_roles(action, inferred.roles, inferred.matched),
       LAMBDA expanded :
         [k \in 1..Len(expanded) |->
            [action           |-> action,
             role             |-> expanded[k].role,
             task_action      |-> expanded[k].task_action,
             matched_keywords |-> KeywordsOf(inferred.matched, expanded[k].role),
             source           |-> inferred.source]])

\* The two nested loops of PlannerAgent.run, flattened: for every action, in
\* order, its expansions.
RECURSIVE ExpandAll(_, _, _)
ExpandAll(actions, hash_order, role_hints) ==
  IF actions = <<>> THEN <<>>
  ELSE ExpandOne(Head(actions),
                 Hinted(infer_roles_with_keywords(Head(actions), hash_order),
                        RoleHint(Head(actions), role_hints)))
         \o ExpandAll(Tail(actions), hash_order, role_hints)

\* f"task_{task_index}"
TaskId(task_index) == "task_" \o ToString(task_index)

\* A faulty variant: a retry plans the Reader's actions whatever it is asked
RetryActions_KeepActions(actions, actions_raw, avoid_non_business) == actions

\* The retry part of the action list PlannerAgent.run plans: the Reader's
\* actions, re-filtered from actions_raw on a retry that asks to avoid
\* non-business actions.
RetryActions(actions, actions_raw, avoid_non_business) ==
  IF avoid_non_business /\ actions_raw # <<>>
  THEN filter_business_actions(actions_raw)
  ELSE actions

\* A faulty variant: the split is forced on every retry, asked for or not
PlannerActions_SplitOnRetry(reader_out) ==
  With(RetryActions(reader_out.actions,
                    IF reader_out.actions_raw # <<>>
                    THEN reader_out.actions_raw ELSE reader_out.actions,
                    reader_out.avoid_non_business /\ reader_out.retry_issues # <<>>),
       LAMBDA actions :
         IF reader_out.retry_issues # <<>> /\ Len(actions) <= 1
         THEN _force_split_actions(IF actions # <<>> THEN actions[1] ELSE <<>>,
                                   reader_out.input_text)
         ELSE actions)

\* The action list PlannerAgent.run plans: RetryActions, force-split when asked
\* to and at most one action is left.
PlannerActions(reader_out) ==
  With(RetryActions(reader_out.actions,
                    IF reader_out.actions_raw # <<>>
                    THEN reader_out.actions_raw ELSE reader_out.actions,
                    reader_out.avoid_non_business /\ reader_out.retry_issues # <<>>),
       LAMBDA actions :
         IF reader_out.force_task_split /\ Len(actions) <= 1
         THEN _force_split_actions(IF actions # <<>> THEN actions[1] ELSE <<>>,
                                   reader_out.input_text)
         ELSE actions)

\* The task PlannerAgent.run builds for one expansion.
PlannedTask(task_index, e, entities_people) ==
  [id                 |-> TaskId(task_index),
   name               |-> IF e.task_action # <<>>
                          THEN e.task_action ELSE STR_PROCESS_REQUEST,
   role               |-> e.role,
   trigger            |-> _build_trigger(e.task_action),
   steps              |-> IF e.task_action # <<>>
                          THEN <<e.task_action>> ELSE <<STR_REVIEW_INPUT>>,
   exception_handling |-> <<STR_ESCALATE>>,
   notifications      |-> <<STR_NOTIFY_REQUESTER>>,
   recipients         |-> _extract_recipients(e.action, e.role, entities_people)]

\* The task PlannerAgent.run builds when there is no action.
DefaultTask ==
  [id                 |-> "task_1",
   name               |-> STR_PROCESS_REQUEST,
   role               |-> "Applicant",
   trigger            |-> _build_trigger(<<>>),
   steps              |-> <<STR_REVIEW_INPUT, STR_RECORD_OUTCOME>>,
   exception_handling |-> <<STR_ESCALATE>>,
   notifications      |-> <<STR_NOTIFY_REQUESTER>>,
   recipients         |-> <<>>]

\* The dict PlannerAgent.run returns for the tasks it built.
PlannerOut(tasks, role_inference) ==
  [tasks          |-> tasks,
   roles          |-> build_role_definitions([k \in 1..Len(tasks) |-> tasks[k].role]),
   role_inference |-> role_inference]

\* The body of "for expanded in expanded_actions", for all expansions.
PlannerTasks(ex, entities_people) ==
  PlannerOut([k \in 1..Len(ex) |-> PlannedTask(k, ex[k], entities_people)],
             [k \in 1..Len(ex) |->
                [action           |-> ex[k].task_action,
                 source_action    |-> ex[k].action,
                 inferred_role    |-> ex[k].role,
                 matched_keywords |-> ex[k].matched_keywords,
                 source           |-> ex[k].source]])

\* A faulty variant: no default task when there is no action
PlannerFrom_NoDefault(actions, hash_order, entities_people, role_hints) ==
  IF actions # <<>>
  THEN PlannerTasks(ExpandAll(actions, hash_order, role_hints), entities_people)
  ELSE PlannerOut(<<>>, <<>>)

\* PlannerAgent.run from "if actions:" on.
PlannerFrom(actions, hash_order, entities_people, role_hints) ==
  IF actions # <<>>
  THEN PlannerTasks(ExpandAll(actions, hash_order, role_hints), entities_people)
  ELSE PlannerOut(<<DefaultTask>>, <<>>)

\* PlannerAgent.run from line 139 on, with the actions planned so far
PlannerMerged(actions, hash_order, entities_people, llm) ==
  PlannerFrom(IF llm.actions # <<>> THEN _merge_unique(actions, llm.actions)
              ELSE actions,
              hash_order, entities_people, llm.role_hints)

\* The actions PlannerAgent.run infers roles for
PlannedActions(reader_out, llm) ==
  IF llm.actions # <<>> THEN _merge_unique(PlannerActions(reader_out), llm.actions)
  ELSE PlannerActions(reader_out)

\* The sets of contact keywords PlannerAgent.run has listed when it returns
PlannedSets(reader_out, llm) ==
  UNION {ListedSets(PlannedActions(reader_out, llm)[k]) :
           k \in 1..Len(PlannedActions(reader_out, llm))}

\* PlannerAgent.run given what _maybe_refine_with_llm returns
PlannerRun(reader_out, hash_order, llm) ==
  PlannerMerged(PlannerActions(reader_out), hash_order,
                reader_out.entities_detail.people, llm)

\* PlannerAgent.run when LLM_ENABLED is unset
PlannerAgent_run(reader_out, hash_order) ==
  PlannerRun(reader_out, hash_order, LlmDisabled("planner_roles", PlannerAdded))

(***************************************************************************)
(* agent/validator.py                                                       *)
(***************************************************************************)

is_compound_text(input_text, actions) ==
  IF Len(actions) >= 2 THEN TRUE
  ELSE With(Strip(input_text), LAMBDA cleaned :
         IF cleaned = <<>> THEN FALSE
         ELSE IF Contains(cleaned, STR_TOUTEN) \/ Contains(cleaned, STR_KUTEN) THEN TRUE
         ELSE \E k \in 1..Len(COMPOUND_KEYWORDS) : Contains(cleaned, COMPOUND_KEYWORDS[k]))

\* " ".join([name] + [str(step) for step in steps])
TaskText(task) == JoinSpace(<<task.name>> \o task.steps)

is_non_business_task(task) ==
  With(TaskText(task), LAMBDA combined :
    /\ _contains_any(combined, NON_BUSINESS_KEYWORDS)
    /\ ~_contains_any(combined, BUSINESS_KEYWORDS))

\* A faulty variant: every task is taken to need a trigger
_task_requires_trigger_Always(task) == TRUE

_task_requires_trigger(task) == _contains_any(TaskText(task), TRIGGER_MARKERS)

_is_contact_task(task) == _contains_any(TaskText(task), CONTACT_KEYWORDS)

\* str(task.get("id") or "unknown_task")
TaskIdOf(task) == IF task.id # "" THEN task.id ELSE "unknown_task"

\* An issue_details entry.  Its "message" is a fixed text per code that nothing
\* reads; it is left out.
IssueDetail(code, severity, data) == [code |-> code, severity |-> severity, data |-> data]

\* What one iteration of the loop over tasks appends, given the outcome of
\* each of its tests
TaskAppends(task, task_id, no_trigger, no_recipient, non_business) ==
  [issues |->
     (IF task.name = <<>> THEN <<"missing name in " \o task_id>> ELSE <<>>)
     \o (IF task.role = "" THEN <<"missing role in " \o task_id>> ELSE <<>>)
     \o (IF no_trigger THEN <<"missing trigger in " \o task_id>> ELSE <<>>)
     \o (IF task.steps = <<>> THEN <<"missing steps in " \o task_id>> ELSE <<>>)
     \o (IF no_recipient THEN <<"notification_without_recipient">> ELSE <<>>),
   issue_details |->
     IF no_recipient
     THEN <<IssueDetail("notification_without_recipient", "warning",
                        [task_id |-> task_id])>>
     ELSE <<>>,
   open_questions |->
     IF no_trigger THEN <<"What triggers " \o task_id \o "?">> ELSE <<>>,
   role_names |-> IF task.role = "" THEN <<>> ELSE <<task.role>>,
   non_business_tasks |-> IF non_business THEN <<task_id>> ELSE <<>>]

\* A faulty variant: a conditional task is reported whether or not it has a
\* trigger
TaskFindings_IgnoreTrigger(task, people) ==
  TaskAppends(task,
              TaskIdOf(task),
              _task_requires_trigger(task),
              people # <<>> /\ _is_contact_task(task) /\ task.recipients = <<>>,
              is_non_business_task(task))

\* One iteration of the loop "for task in tasks"
TaskFindings(task, people) ==
  TaskAppends(task,
              TaskIdOf(task),
              _task_requires_trigger(task) /\ task.trigger = <<>>,
              people # <<>> /\ _is_contact_task(task) /\ task.recipients = <<>>,
              is_non_business_task(task))

\* The findings f of one iteration followed by the findings r of the later ones
JoinFindings(f, r) ==
  [issues             |-> f.issues \o r.issues,
   issue_details      |-> f.issue_details \o r.issue_details,
   open_questions     |-> f.open_questions \o r.open_questions,
   role_names         |-> f.role_names \o r.role_names,
   non_business_tasks |-> f.non_business_tasks \o r.non_business_tasks]

\* The loop "for task in tasks": the findings of the tasks, concatenated in
\* task order
RECURSIVE TasksFindings(_, _)
TasksFindings(tasks, people) ==
  IF tasks = <<>>
  THEN [issues |-> <<>>, issue_details |-> <<>>, open_questions |-> <<>>,
        role_names |-> <<>>, non_business_tasks |-> <<>>]
  ELSE JoinFindings(TaskFindings(Head(tasks), people),
                    TasksFindings(Tail(tasks), people))

\* The branch on planner_out.get("tasks")
TaskLoop(tasks, people) ==
  IF tasks = <<>>
  THEN [issues |-> <<"tasks missing">>, issue_details |-> <<>>,
        open_questions |-> <<"What tasks are required?">>,
        role_names |-> <<>>, non_business_tasks |-> <<>>]
  ELSE TasksFindings(tasks, people)

\* The loop "for role in roles"
RoleFindings(roles) ==
  With(SelectSeq(roles, LAMBDA role : role.name = ""), LAMBDA unnamed :
    [issues         |-> [k \in 1..Len(unnamed) |-> "role name missing"],
     open_questions |-> [k \in 1..Len(unnamed) |-> "What are the role names?"]])

\* The branch on planner_out.get("roles")
RoleLoop(roles) ==
  IF roles = <<>>
  THEN [issues |-> <<"roles missing">>,
        open_questions |-> <<"Who is responsible for each task?">>]
  ELSE RoleFindings(roles)

\* set(xs) as a set
ToSet(xs) == {xs[k] : k \in 1..Len(xs)}

\* [value for value in trigger_values if value]
NonEmptyTriggers(tasks) ==
  SelectSeq([k \in 1..Len(tasks) |-> tasks[k].trigger], LAMBDA value : value # <<>>)

\* What ValidatorAgent.run returns, given the findings tf of the task loop, rf
\* of the role loop and the outcome of the four checks that follow them
ValidatorOut(tf, rf, unique_roles, single_role, compound_detected, compound_single, unique_triggers, global_trigger, input_text, actions_count, filtered_out_count) ==
  [issues |->
     tf.issues \o rf.issues
     \o (IF tf.non_business_tasks # <<>>
         THEN <<"non_business_task_detected">> ELSE <<>>)
     \o (IF single_role THEN <<"role_not_inferred">> ELSE <<>>)
     \o (IF compound_single THEN <<"compound_text_single_task">> ELSE <<>>)
     \o (IF global_trigger THEN <<"suspicious_global_trigger">> ELSE <<>>),
   issue_details |->
     tf.issue_details
     \o (IF tf.non_business_tasks # <<>>
         THEN <<IssueDetail("non_business_task_detected", "warning",
                            [tasks |-> tf.non_business_tasks])>>
         ELSE <<>>)
     \o (IF single_role
         THEN <<IssueDetail("role_not_inferred", "warning",
                            [role |-> CHOOSE r \in unique_roles : TRUE])>>
         ELSE <<>>)
     \o (IF compound_single
         THEN <<IssueDetail("compound_text_single_task", "error",
                            [actions_count      |-> actions_count,
                             filtered_out_count |-> filtered_out_count,
                             text               |-> input_text])>>
         ELSE <<>>)
     \o (IF global_trigger
         THEN <<IssueDetail("suspicious_global_trigger", "warning",
                            [trigger |-> CHOOSE t \in unique_triggers : TRUE])>>
         ELSE <<>>),
   open_questions    |-> tf.open_questions \o rf.open_questions,
   compound_detected |-> compound_detected]

\* A faulty variant: the exemption for a filtered input is missing
compound_single_NoFilterCase(compound_detected, tasks_count, actions_count, filtered_out_count) ==
  /\ compound_detected
  /\ tasks_count = 1
  /\ actions_count >= 2

\* The condition of the compound-text check (isinstance(tasks, list) holds of
\* every planner output)
compound_single(compound_detected, tasks_count, actions_count, filtered_out_count) ==
  /\ compound_detected
  /\ tasks_count = 1
  /\ (actions_count >= 2 \/ filtered_out_count = 0)

\* The checks of ValidatorAgent.run that follow the two loops
ValidatorChecks(tasks, tf, rf, non_empty_triggers, compound_detected, input_text, actions_count, filtered_out_count) ==
  ValidatorOut(tf, rf,
               ToSet(tf.role_names),
               Len(tf.role_names) >= 2 /\ Cardinality(ToSet(tf.role_names)) = 1,
               compound_detected,
               compound_single(compound_detected, Len(tasks), actions_count,
                               filtered_out_count),
               ToSet(non_empty_triggers),
               /\ Len(tasks) >= 2
               /\ Len(non_empty_triggers) = Len(tasks)
               /\ Cardinality(ToSet(non_empty_triggers)) = 1,
               input_text, actions_count, filtered_out_count)

ValidatorAgent_run(planner_out, input_text, actions, actions_filtered_out, entities) ==
  ValidatorChecks(planner_out.tasks,
                  TaskLoop(planner_out.tasks, entities.people),
                  RoleLoop(planner_out.roles),
                  NonEmptyTriggers(planner_out.tasks),
                  is_compound_text(input_text, actions),
                  input_text, Len(actions), Len(actions_filtered_out))

(***************************************************************************)
(* agent/generator.py  (LLM_ENABLED unset: the title and the overview are   *)
(* the defaults)                                                            *)
(***************************************************************************)

\* Line boundaries of str.splitlines()
LINEBREAKS == {10, 11, 12, 13, 28, 29, 30, 133, 8232, 8233}

\* cleaned.splitlines()[0] for a non-empty cleaned
RECURSIVE FirstLine(_)
FirstLine(s) ==
  IF s = <<>> \/ Head(s) \in LINEBREAKS THEN <<>>
  ELSE <<Head(s)>> \o FirstLine(Tail(s))

\* GeneratorAgent._build_title
_build_title(text) ==
  With(Strip(text), LAMBDA cleaned :
    IF cleaned = <<>> THEN STR_UNTITLED_PROCESS
    ELSE With(Strip(FirstLine(cleaned)), LAMBDA first_line :
           IF Len(first_line) > 60 THEN SubSeq(first_line, 1, 57) \o STR_ELLIPSIS
           ELSE first_line))

\* GeneratorAgent._coerce_role
_coerce_role(role) ==
  [name             |-> IF role.name # "" THEN role.name ELSE "Operator",
   responsibilities |-> IF role.responsibilities # <<>> THEN role.responsibilities
                        ELSE <<STR_HANDLE_REQUESTS>>]

\* GeneratorAgent._build_roles
_build_roles(planner_out) ==
  IF planner_out.roles # <<>>
  THEN [k \in 1..Len(planner_out.roles) |-> _coerce_role(planner_out.roles[k])]
  ELSE <<[name |-> "Operator", responsibilities |-> <<STR_HANDLE_INCOMING>>]>>

\* A faulty variant: an empty trigger is replaced by the default trigger
_coerce_task_DefaultTrigger(task, default_role, default_trigger) ==
  [id                 |-> IF task.id # "" THEN task.id ELSE "task_1",
   name               |-> IF task.name # <<>> THEN task.name ELSE STR_PROCESS_REQUEST,
   role               |-> IF task.role # "" THEN task.role ELSE default_role,
   trigger            |-> IF task.trigger # <<>> THEN task.trigger ELSE default_trigger,
   steps              |-> IF task.steps # <<>> THEN task.steps ELSE <<STR_REVIEW_INPUT>>,
   exception_handling |-> task.exception_handling,
   notifications      |-> task.notifications,
   recipients         |-> task.recipients]

\* GeneratorAgent._coerce_task.  A task dict always carries a "trigger" string
\* (PlannerAgent.run sets it), so the branch "trigger_value is None" that would
\* substitute default_trigger is not taken and str(trigger_value or "") is the
\* trigger itself.
_coerce_task(task, default_role, default_trigger) ==
  [id                 |-> IF task.id # "" THEN task.id ELSE "task_1",
   name               |-> IF task.name # <<>> THEN task.name ELSE STR_PROCESS_REQUEST,
   role               |-> IF task.role # "" THEN task.role ELSE default_role,
   trigger            |-> task.trigger,
   steps              |-> IF task.steps # <<>> THEN task.steps ELSE <<STR_REVIEW_INPUT>>,
   exception_handling |-> task.exception_handling,
   notifications      |-> task.notifications,
   recipients         |-> task.recipients]

\* GeneratorAgent._build_tasks
_build_tasks(planner_out, reader_out, roles) ==
  LET default_role    == IF roles # <<>> THEN roles[1].name ELSE "Operator"
      conditions      == reader_out.conditions
      default_trigger == IF conditions # <<>> THEN conditions[1]
                         ELSE STR_WHEN_REQUEST_RECEIVED
  IN  IF planner_out.tasks # <<>>
      THEN [k \in 1..Len(planner_out.tasks) |->
              _coerce_task(planner_out.tasks[k], default_role, default_trigger)]
      ELSE <<[id                 |-> "task_1",
              name               |-> STR_PROCESS_REQUEST,
              role               |-> default_role,
              trigger            |-> default_trigger,
              steps              |-> <<STR_REVIEW_INPUT, STR_RECORD_OUTCOME>>,
              exception_handling |-> <<STR_ESCALATE>>,
              notifications      |-> <<STR_NOTIFY_REQUESTER>>,
              recipients         |-> <<>>]>>

\* The BusinessDefinition GeneratorAgent.run builds
BusinessDefinition(default_title, roles, reader_out, planner_out, validator_out) ==
  [title          |-> default_title,
   overview       |-> STR_GENERATED_FOR \o default_title,
   tasks          |-> _build_tasks(planner_out, reader_out, roles),
   roles          |-> roles,
   assumptions    |-> IF reader_out.assumptions # <<>> THEN reader_out.assumptions
                      ELSE <<STR_INPUT_IS_COMPLETE>>,
   open_questions |-> validator_out.open_questions]

\* GeneratorAgent.run when LLM_ENABLED is unset
GeneratorAgent_run(text, reader_out, planner_out, validator_out) ==
  BusinessDefinition(_build_title(text), _build_roles(planner_out),
                     reader_out, planner_out, validator_out)

\* GeneratorAgent.run given what _maybe_generate_title_overview_with_llm
\* returns: lines 115-116
GeneratorRun(text, reader_out, planner_out, validator_out, llm) ==
  [GeneratorAgent_run(text, reader_out, planner_out, validator_out)
     EXCEPT !.title    = IF llm.title # <<>> THEN llm.title ELSE @,
            !.overview = IF llm.overview # <<>> THEN llm.overview ELSE @]

(***************************************************************************)
(* agent/orchestrator.py: Orchestrator.convert as a state machine           *)
(***************************************************************************)

VARIABLES
  pc,            \* where convert is: INIT, PLAN, VALIDATE, GENERATE, DONE, FAILED
  text,          \* convert's argument
  max_retries,   \* self.max_retries
  hash_order,    \* this process's iteration order of each set of contact keywords
                 \* it has listed so far
  reader_out,    \* the Reader's dict, mutated between attempts
  captured,      \* the locals read from reader_out before the loop (lines 131-137)
  planner_out,
  validator_out,
  retries,
  issues,
  agent_logs,
  definition,    \* the returned BusinessDefinition
  meta,          \* the returned meta
  remaining,     \* the issue codes carried by the raised ValueError
  attempts,      \* history: per attempt, what Planner and Validator returned
  llm,           \* the stages LLM_ENABLED and LLM_FEATURES give the LLM to, each
                 \* agent's _last_llm_usage, and (history) the calls of
                 \* llm_generate
  service        \* a service function called on its own, as the tests call it:
                 \* its name, its argument and what it returned

vars == <<pc, text, max_retries, hash_order, reader_out, captured, planner_out,
          validator_out, retries, issues, agent_logs, definition, meta,
          remaining, attempts, llm, service>>

\* planner_out = {} and validator_out = {} as the code reads them through .get
EmptyPlannerOut == [tasks |-> <<>>, roles |-> <<>>, role_inference |-> <<>>]
EmptyValidatorOut ==
  [issues |-> <<>>, issue_details |-> <<>>, open_questions |-> <<>>,
   compound_detected |-> FALSE]

\* ", ".join(items) for TLA+ strings
RECURSIVE JoinComma(_)
JoinComma(items) ==
  IF items = <<>> THEN ""
  ELSE IF Len(items) = 1 THEN items[1]
  ELSE items[1] \o ", " \o JoinComma(Tail(items))

_log_reader(r) ==
  [step    |-> "reader",
   summary |-> "entities=" \o ToString(Len(r.entities))
               \o " actions=" \o ToString(Len(r.actions))
               \o " people=" \o ToString(Len(r.entities_detail.people))]

_log_planner(p) ==
  [step    |-> "planner",
   summary |-> "tasks=" \o ToString(Len(p.tasks))
               \o " roles=" \o ToString(Len(p.roles))
               \o " role_inference=" \o ToString(Len(p.role_inference))]

\* A faulty variant: the count is that of the codes the summary names
_log_validator_SummaryCount(v) ==
  [step         |-> "validator",
   summary      |-> IF v.issues # <<>>
                    THEN "issues: " \o JoinComma(SubSeq(v.issues, 1,
                                          IF Len(v.issues) < 2 THEN Len(v.issues) ELSE 2))
                    ELSE "passed",
   issues_count |-> IF Len(v.issues) < 2 THEN Len(v.issues) ELSE 2]

_log_validator(v) ==
  [step         |-> "validator",
   summary      |-> IF v.issues # <<>>
                    THEN "issues: " \o JoinComma(SubSeq(v.issues, 1,
                                          IF Len(v.issues) < 2 THEN Len(v.issues) ELSE 2))
                    ELSE "passed",
   issues_count |-> Len(v.issues)]

_log_generator(d) ==
  [step    |-> "generator",
   summary |-> "tasks=" \o ToString(Len(d.tasks)) \o " roles=" \o ToString(Len(d.roles))]

\* lines 156-160
warning_issue_codes(issue_details) ==
  {issue_details[k].code :
     k \in {j \in 1..Len(issue_details) : issue_details[j].severity = "warning"}}

\* A faulty variant: the warning-flagged codes are not taken out
blocking_issues_All(issue_list, issue_details) == issue_list

\* lines 161-163 and 180-182
blocking_issues(issue_list, issue_details) ==
  SelectSeq(issue_list, LAMBDA issue : issue \notin warning_issue_codes(issue_details))

\* line 164
only_warnings(issue_list, issue_details) ==
  issue_list # <<>> /\ blocking_issues(issue_list, issue_details) = <<>>

\* A faulty variant: the bound is off by one
RetryBranch_OffByOne(issue_list, n) == issue_list # <<>> /\ n <= max_retries

\* A faulty variant: a retry is started whether or not there is an issue
RetryBranch_NoIssueTest(issue_list, n) == n < max_retries

\* line 166
RetryBranch(issue_list, n) == issue_list # <<>> /\ n < max_retries

\* A faulty variant: after one retry every result is accepted
AcceptWarnings_AnyIssue(issue_list, issue_details, n) == issue_list # <<>> /\ n >= 1

\* A faulty variant: warnings are accepted only after two retries
AcceptWarnings_Late(issue_list, issue_details, n) ==
  only_warnings(issue_list, issue_details) /\ n >= 2

\* line 167
AcceptWarnings(issue_list, issue_details, n) ==
  only_warnings(issue_list, issue_details) /\ n >= 1

\* A faulty variant: each retry writes the flags anew, so a flag an earlier
\* retry has set is cleared by a retry whose issues lack the code
RetrySignals_Overwrite(r, issue_list) ==
  [r EXCEPT !.retry_issues       = issue_list,
            !.force_task_split   = InList("compound_text_single_task", issue_list),
            !.avoid_non_business = InList("non_business_task_detected", issue_list)]

\* A faulty variant: a retry also writes the re-filtered action list onto the
\* Reader's dict
RetrySignals_Refilter(r, issue_list) ==
  [r EXCEPT !.retry_issues       = issue_list,
            !.force_task_split   = @ \/ InList("compound_text_single_task", issue_list),
            !.avoid_non_business = @ \/ InList("non_business_task_detected", issue_list),
            !.actions            = filter_business_actions(r.actions_raw)]

\* lines 171-176: the retry signals written onto the Reader's dict
RetrySignals(r, issue_list) ==
  [r EXCEPT !.retry_issues       = issue_list,
            !.force_task_split   = @ \/ InList("compound_text_single_task", issue_list),
            !.avoid_non_business = @ \/ InList("non_business_task_detected", issue_list)]

\* A faulty variant: the issue details are left out of the meta
BuildMeta_NoDetails(p, v, issue_list) ==
  [retries                |-> retries,
   model                  |-> "stub",
   actions                |-> captured.actions,
   actions_raw            |-> captured.actions_raw,
   actions_filtered_out   |-> captured.actions_filtered_out,
   action_filter_version  |-> captured.action_filter_version,
   action_filter_fallback |-> captured.action_filter_fallback,
   entities               |-> captured.entities,
   role_inference         |-> p.role_inference,
   splitter_version       |-> captured.splitter_version,
   compound_detected      |-> v.compound_detected,
   validator_issues       |-> <<>>]

\* lines 195-213
BuildMeta(p, v, issue_list) ==
  [retries                |-> retries,
   model                  |-> "stub",
   actions                |-> captured.actions,
   actions_raw            |-> captured.actions_raw,
   actions_filtered_out   |-> captured.actions_filtered_out,
   action_filter_version  |-> captured.action_filter_version,
   action_filter_fallback |-> captured.action_filter_fallback,
   entities               |-> captured.entities,
   role_inference         |-> p.role_inference,
   splitter_version       |-> captured.splitter_version,
   compound_detected      |-> v.compound_detected,
   validator_issues       |-> IF v.issue_details # <<>> THEN v.issue_details
                              ELSE issue_list]

\* lines 129-137: the Reader's dict r is logged and the locals are read from it
AfterRead(r) ==
  /\ reader_out' = r
  /\ agent_logs' = <<_log_reader(r)>>
  /\ captured' = [actions                |-> r.actions,
                  actions_raw            |-> r.actions_raw,
                  actions_filtered_out   |-> r.actions_filtered_out,
                  action_filter_version  |-> r.action_filter_version,
                  action_filter_fallback |-> r.action_filter_fallback,
                  entities               |-> r.entities_detail,
                  splitter_version       |-> r.splitter_version]

\* The LLM raises or returns a response the call site cannot use: no JSON
\* object, an empty one, or (for the Generator) one without a title or
\* without an overview
Unusable(site, response) ==
  \/ response.raises # ""
  \/ response.json # "object"
  \/ response.payload = EmptyPayload
  \/ /\ site = "generator"
     /\ (Strip(response.payload.title) = <<>> \/ Strip(response.payload.overview) = <<>>)

\* What llm_generate may do when it is called
LlmResponsesFor(reached) == IF reached THEN LlmResponses ELSE {NotCalled}

\* self._last_llm_usage = llm_usage at a call site, and the call in the
\* history, with the dict _extract_json_object gave the call site ({} when
\* the call raised or gave it None)
Recorded(site, reached, response, usage) ==
  llm' = [llm EXCEPT ![site] = usage,
                     !.calls = IF reached
                               THEN Append(@, [site     |-> site,
                                               unusable |-> Unusable(site, response),
                                               payload  |-> IF CallFails(response)
                                                            THEN EmptyPayload
                                                            ELSE response.payload])
                               ELSE @]

\* reader.py lines 161-168, then orchestrator.py lines 129-137
ReadWith(enabled, response) ==
  /\ AfterRead(ReaderRun(text, _maybe_enhance_actions_with_llm(enabled, Strip(text),
                                                               response)))
  /\ IF Strip(text) = <<>> THEN UNCHANGED llm
     ELSE Recorded("reader", enabled, response,
                   _maybe_enhance_actions_with_llm(enabled, Strip(text), response).usage)

\* lines 127-140: the Reader runs once
Read ==
  /\ pc = "INIT"
  /\ \E response \in LlmResponsesFor(Reaches("reader" \in llm.features, text)) :
       ReadWith("reader" \in llm.features, response)
  /\ retries' = 0
  /\ planner_out' = EmptyPlannerOut
  /\ validator_out' = EmptyValidatorOut
  /\ pc' = "PLAN"
  /\ UNCHANGED <<text, max_retries, hash_order, issues, definition, meta,
                 remaining, attempts, service>>

\* line 143
AfterPlan(p) ==
  /\ planner_out' = p
  /\ agent_logs' = Append(agent_logs, _log_planner(p))

\* orchestrator.py line 143 for the Planner's dict, and the orders the
\* process has used by then
PlannedWith(llm_out, orders) ==
  /\ AfterPlan(PlannerRun(reader_out, orders, llm_out))
  /\ hash_order' = orders

\* planner.py lines 134-138 and 152, then orchestrator.py line 143: a set of
\* keywords listed for the first time is iterated in any one order
PlanWith(enabled, reached, response) ==
  /\ \E orders \in Extensions(hash_order,
                                PlannedSets(reader_out,
                                            _maybe_refine_with_llm(enabled,
                                                                   reader_out.input_text,
                                                                   response))) :
       PlannedWith(_maybe_refine_with_llm(enabled, reader_out.input_text, response),
                   orders)
  /\ Recorded("planner", reached, response,
              _maybe_refine_with_llm(enabled, reader_out.input_text, response).usage)

\* lines 142-143
Plan ==
  /\ pc = "PLAN"
  /\ \E response \in LlmResponsesFor(Reaches("planner" \in llm.features,
                                             reader_out.input_text)) :
       PlanWith("planner" \in llm.features,
                Reaches("planner" \in llm.features, reader_out.input_text), response)
  /\ pc' = "VALIDATE"
  /\ UNCHANGED <<text, max_retries, reader_out, captured,
                 validator_out, retries, issues, definition, meta, remaining,
                 attempts, service>>

\* A faulty variant: once the retries are used up any issue raises, warning-
\* flagged or not
Outcome_NoWarningFilter(issue_list, issue_details, n) ==
  IF RetryBranch(issue_list, n)
  THEN (IF AcceptWarnings(issue_list, issue_details, n) THEN "accept" ELSE "retry")
  ELSE IF issue_list # <<>> THEN "raise"
  ELSE "break"

\* lines 166-186: the branch convert takes on the Validator's issues
\*   accept: lines 168-169, then break     retry: lines 171-177
\*   raise:  line 184                      break: line 186 with nothing to raise
Outcome(issue_list, issue_details, n) ==
  IF RetryBranch(issue_list, n)
  THEN (IF AcceptWarnings(issue_list, issue_details, n) THEN "accept" ELSE "retry")
  ELSE IF issue_list # <<>> /\ blocking_issues(issue_list, issue_details) # <<>>
  THEN "raise"
  ELSE "break"

\* A faulty variant: a retry goes back to the Validator, not to the Planner
NextStage_SkipPlanner(outcome) ==
  CASE outcome = "retry" -> "VALIDATE"
    [] outcome = "raise" -> "FAILED"
    [] OTHER             -> "GENERATE"

\* Where convert goes on a branch: back to the head of the loop (line 177),
\* out by the raise (line 184), or on to the Generator (line 186 to 188)
NextStage(outcome) ==
  CASE outcome = "retry" -> "PLAN"
    [] outcome = "raise" -> "FAILED"
    [] OTHER             -> "GENERATE"

\* lines 152-186 once the branch is known
Branch(v, outcome) ==
  /\ agent_logs' = Append(agent_logs, _log_validator(v))
  /\ attempts' = Append(attempts, [planner_out   |-> planner_out,
                                   validator_out |-> v,
                                   retries       |-> retries,
                                   outcome       |-> outcome])
  /\ validator_out' = IF outcome = "accept" THEN [v EXCEPT !.issues = <<>>] ELSE v
  /\ issues' = IF outcome = "accept" THEN <<>> ELSE v.issues
  /\ retries' = IF outcome = "retry" THEN retries + 1 ELSE retries
  /\ reader_out' = IF outcome = "retry" THEN RetrySignals(reader_out, v.issues)
                   ELSE reader_out
  /\ remaining' = IF outcome = "raise"
                  THEN blocking_issues(v.issues, v.issue_details) ELSE remaining
  /\ pc' = NextStage(outcome)
  /\ UNCHANGED <<text, max_retries, hash_order, captured, planner_out,
                 definition, meta, llm, service>>

\* lines 152-186: what convert does with the dict v the Validator returned,
\* up to the next stage call, the raise or the break
AfterValidation(v) == Branch(v, Outcome(v.issues, v.issue_details, retries))

\* lines 145-151 with the default ValidatorAgent
Validate ==
  /\ pc = "VALIDATE"
  /\ AfterValidation(
       ValidatorAgent_run(planner_out,
                          IF reader_out.input_text # <<>> THEN reader_out.input_text
                          ELSE text,
                          captured.actions,
                          captured.actions_filtered_out,
                          captured.entities))

\* line 194
AfterGenerate(d) ==
  /\ definition' = d
  /\ agent_logs' = Append(agent_logs, _log_generator(d))

\* generator.py lines 110-113, then orchestrator.py line 194
GenerateWith(enabled, reached, response) ==
  /\ AfterGenerate(GeneratorRun(text, reader_out, planner_out, validator_out,
                                _maybe_generate_title_overview_with_llm(enabled, text,
                                                                        response)))
  /\ Recorded("generator", reached, response,
              _maybe_generate_title_overview_with_llm(enabled, text, response).usage)

\* lines 188-214
Generate ==
  /\ pc = "GENERATE"
  /\ \E response \in LlmResponsesFor(Reaches("generator" \in llm.features, text)) :
       GenerateWith("generator" \in llm.features,
                    Reaches("generator" \in llm.features, text), response)
  /\ meta' = BuildMeta(planner_out, validator_out, issues)
  /\ pc' = "DONE"
  /\ UNCHANGED <<text, max_retries, hash_order, reader_out, captured,
                 planner_out, validator_out, retries, issues, remaining, attempts,
                 service>>

(***************************************************************************)
(* Specifications                                                           *)
(***************************************************************************)

\* The largest max_retries the Orchestrator is constructed with (the default,
\* orchestrator.py line 37, is 2)
MaxRetriesBound == 2

\* The stages that may be given the LLM
Stages == {"reader", "planner", "generator"}

\* The LLM before convert is called, with the stages that have it: no agent has
\* run, so each _last_llm_usage is None
LlmWith(features) ==
  [features |-> features, reader |-> NoValue, planner |-> NoValue,
   generator |-> NoValue, calls |-> <<>>]

\* No service function has been called on its own
NoCall == [fn |-> "", arg |-> <<>>, result |-> <<>>]

\* The state before convert is called, but for the LLM
InitOn(texts) ==
  /\ service = NoCall
  /\ pc = "INIT"
  /\ text \in texts
  /\ max_retries \in 0..MaxRetriesBound
  /\ hash_order = NoOrders
  /\ reader_out = NoValue
  /\ captured = NoValue
  /\ planner_out = EmptyPlannerOut
  /\ validator_out = EmptyValidatorOut
  /\ retries = 0
  /\ issues = <<>>
  /\ agent_logs = <<>>
  /\ definition = NoValue
  /\ meta = NoValue
  /\ remaining = <<>>
  /\ attempts = <<>>

\* The state before convert is called, LLM_ENABLED unset
InitWith(texts) ==
  /\ llm = LlmWith({})
  /\ InitOn(texts)

\* Results an injected validator (the constructor's validator argument) may
\* return: issue lists over a warning code, a second warning code, the error
\* code and a structural code that has no issue_details entry.
StubIssueLists ==
  { <<>>,
    <<"role_not_inferred">>,
    <<"non_business_task_detected", "role_not_inferred">>,
    <<"compound_text_single_task">>,
    <<"non_business_task_detected", "compound_text_single_task">>,
    <<"missing steps in task_1">>,
    <<"missing steps in task_1", "role_not_inferred", "compound_text_single_task">> }

StubDetails(issue_list) ==
  LET detailed == SelectSeq(issue_list, LAMBDA c : c # "missing steps in task_1") IN
  [k \in 1..Len(detailed) |->
     IssueDetail(detailed[k],
                 IF detailed[k] = "compound_text_single_task" THEN "error" ELSE "warning",
                 NoValue)]

StubResults ==
  {[issues            |-> il,
    issue_details     |-> StubDetails(il),
    open_questions    |-> <<>>,
    compound_detected |-> InList("compound_text_single_task", il)] : il \in StubIssueLists}

\* The inputs convert is run on with an injected validator
StubTexts == {TEXT_APPROVE_EXPENSES, TEXT_CONFIRM_THEN_SEND, TEXT_GREETING}

\* lines 145-151 with an injected validator
ValidateInjected ==
  /\ pc = "VALIDATE"
  /\ \E v \in StubResults : AfterValidation(v)

\* convert with the default agents or with an injected validator
Init == InitWith(StubTexts)
Next == Read \/ Plan \/ Validate \/ ValidateInjected \/ Generate
Spec == Init /\ [][Next]_vars

\* convert runs to its end: every stage call returns, so convert keeps taking
\* steps for as long as it has neither returned nor raised.  This is weak
\* fairness of Next, WF_vars(Next), with ENABLED <<Next>>_vars written as the
\* state predicate it is equivalent to here, pc \notin {"DONE", "FAILED"}.
LiveSpec == Spec /\ ([]<>(pc \in {"DONE", "FAILED"}) \/ []<><<Next>>_vars)

\* convert with the default agents on Texts
PipeInit == InitWith(Texts)
PipeNext == Read \/ Plan \/ Validate \/ Generate
PipeSpec == PipeInit /\ [][PipeNext]_vars

\* convert with an injected validator on Texts: every attempt's result is drawn
\* from StubResults, so the Planner is run on each input under every
\* combination of the retry signals
RetryInit == InitWith(Texts)
RetryNext == Read \/ Plan \/ ValidateInjected \/ Generate
RetrySpec == RetryInit /\ [][RetryNext]_vars

\* ohayou gozaimasu: a greeting only, longer than the greeting keyword it holds
TEXT_GOOD_MORNING == <<12362, 12399, 12424, 12358, 12372, 12374, 12356, 12414, 12377>>

\* The inputs convert is run on with the LLM
LlmTexts ==
  {TEXT_EXPENSE_FLOW, TEXT_GREETING, TEXT_CONFIRM_THEN_SEND, TEXT_APPLY,
   TEXT_GREETING_THEN_SETTLE, TEXT_GOOD_MORNING, <<32, 32, 32>>}

\* convert with the default agents, LLM_ENABLED set and LLM_FEATURES naming
\* any of the stages
LlmInit ==
  /\ llm \in {LlmWith(features) : features \in SUBSET Stages}
  /\ InitOn(LlmTexts)
LlmNext == Read \/ Plan \/ Validate \/ Generate
LlmSpec == LlmInit /\ [][LlmNext]_vars

(***************************************************************************)
(* The functions of services/text_splitter.py called on their own, on       *)
(* inputs put together from a few tokens                                    *)
(***************************************************************************)

\* The largest number of tokens an input is put together from
MaxTokens == 4

\* "".join(tokens)
RECURSIVE Concat(_)
Concat(tokens) == IF tokens = <<>> THEN <<>> ELSE Head(tokens) \o Concat(Tail(tokens))

\* The texts of at most MaxTokens tokens
TextsOf(tokens) ==
  {Concat(ts) : ts \in UNION {[1..n -> tokens] : n \in 0..MaxTokens}}

\* Tokens for split_actions: four of the separators, the characters of one of
\* them, a space, an ideographic space, a two-character word (shinsei) and a
\* word ending in "shi" (seisan shi)
SplitTokens ==
  {SEPARATORS[1], SEPARATORS[2], SEPARATORS[3], SEPARATORS[6],
   <<12381>>, STR_SHI, <<12390>>, <<32>>, <<12288>>, <<30003, 35531>>,
   <<31934, 31639, 12375>>}

\* Tokens for extract_trigger_phrase: the markers, the characters of the last
\* of them, "ni", a space and a two-character word (shinsei)
TriggerTokens ==
  {CONDITION_MARKERS[1], CONDITION_MARKERS[2], CONDITION_MARKERS[3],
   CONDITION_MARKERS[4], CONDITION_MARKERS[5], <<27425>>, <<31532>>,
   STR_NI, <<32>>, <<30003, 35531>>}

\* A service function returns
Returned(fn, arg, result) ==
  /\ service' = [fn |-> fn, arg |-> arg, result |-> result]
  /\ UNCHANGED <<pc, text, max_retries, hash_order, reader_out, captured,
                 planner_out, validator_out, retries, issues, agent_logs,
                 definition, meta, remaining, attempts, llm>>

\* split_actions(text)
CallSplit ==
  /\ service = NoCall
  /\ \E arg \in TextsOf(SplitTokens) :
       Returned("split_actions", arg, split_actions(arg))

\* extract_trigger_phrase(action)
CallTrigger ==
  /\ service = NoCall
  /\ \E arg \in TextsOf(TriggerTokens) :
       Returned("extract_trigger_phrase", arg, extract_trigger_phrase(arg))

ServiceInit ==
  /\ InitWith({<<>>})
  /\ max_retries = 0
ServiceNext == CallSplit \/ CallTrigger
ServiceSpec == ServiceInit /\ [][ServiceNext]_vars

(***************************************************************************)
(* convert with an injected planner (the constructor's planner argument)    *)
(* and max_retries = 0: the Validator is run once, on a Planner output      *)
(* drawn from ValPlannerOuts, with the arguments the Orchestrator passes.   *)
(***************************************************************************)

\* The largest number of tasks in an injected Planner output
MaxTasks == 2

\* The person the Reader extracts from TEXT_CONTACT_SUZUKI
PERSON_SUZUKI ==
  [name    |-> SubSeq(TEXT_CONTACT_SUZUKI, 1, 2),
   surface |-> SubSeq(TEXT_CONTACT_SUZUKI, 1, 4),
   type    |-> "person"]

\* A task dict as PlannerAgent.run lays it out
ValTask(id, name, role, trigger, steps, recipients) ==
  [id                 |-> id,
   name               |-> name,
   role               |-> role,
   trigger            |-> trigger,
   steps              |-> steps,
   exception_handling |-> <<STR_ESCALATE>>,
   notifications      |-> <<STR_NOTIFY_REQUESTER>>,
   recipients         |-> recipients]

\* The tasks an injected Planner's output is made of: a plain task, a contact
\* task without and with recipients, a conditional task without and with its
\* trigger, a greeting, a task with every field missing, and a plain task that
\* carries the conditional task's trigger.
ValTasks ==
  { ValTask("task", TEXT_ORDER, "Applicant", <<>>, <<TEXT_ORDER>>, <<>>),
    ValTask("task", TEXT_NOTIFY, "Applicant", <<>>, <<TEXT_NOTIFY>>, <<>>),
    ValTask("task", TEXT_CONTACT_SUZUKI, "Applicant", <<>>, <<TEXT_CONTACT_SUZUKI>>,
            <<[type |-> "person", name |-> PERSON_SUZUKI.name,
               surface |-> PERSON_SUZUKI.surface]>>),
    ValTask("task", TEXT_SETTLE_WHEN_APPROVED, "Accounting", <<>>,
            <<TEXT_SETTLE_WHEN_APPROVED>>, <<>>),
    ValTask("task", TEXT_SETTLE_WHEN_APPROVED, "Accounting", TEXT_WHEN_APPROVED,
            <<TEXT_SETTLE_WHEN_APPROVED>>, <<>>),
    ValTask("task", TEXT_GREETING, "Applicant", <<>>, <<TEXT_GREETING>>, <<>>),
    ValTask("", <<>>, "", <<>>, <<>>, <<>>),
    ValTask("task", TEXT_APPLY, "Approver", TEXT_WHEN_APPROVED, <<TEXT_APPLY>>, <<>>) }

\* The tasks numbered task_1, task_2, ... in list order; a task without id
\* keeps none
Numbered(tasks) ==
  [k \in 1..Len(tasks) |->
     IF tasks[k].id = "" THEN tasks[k] ELSE [tasks[k] EXCEPT !.id = TaskId(k)]]

\* The outputs of the injected Planner: up to MaxTasks tasks and the role
\* definitions of their roles
ValPlannerOuts ==
  { PlannerOut(Numbered(tasks), <<>>) :
      tasks \in UNION {[1..n -> ValTasks] : n \in 0..MaxTasks} }

\* The state in which convert calls the Validator: the Reader has run on text
\* and the injected Planner has returned planner_out
ValInitOf(r, p) ==
  /\ reader_out = r
  /\ captured = [actions                |-> r.actions,
                 actions_raw            |-> r.actions_raw,
                 actions_filtered_out   |-> r.actions_filtered_out,
                 action_filter_version  |-> r.action_filter_version,
                 action_filter_fallback |-> r.action_filter_fallback,
                 entities               |-> r.entities_detail,
                 splitter_version       |-> r.splitter_version]
  /\ planner_out = p
  /\ agent_logs = <<_log_reader(r), _log_planner(p)>>
  /\ llm = [LlmWith({}) EXCEPT
              !.reader = IF r.input_text = <<>> THEN @
                         ELSE LlmDisabled("reader_actions", ReaderAdded).usage]

ValInit ==
  /\ pc = "VALIDATE"
  /\ text \in Texts
  /\ max_retries = 0
  /\ hash_order = NoOrders
  /\ \E r \in {ReaderAgent_run(text)}, p \in ValPlannerOuts : ValInitOf(r, p)
  /\ validator_out = EmptyValidatorOut
  /\ retries = 0
  /\ issues = <<>>
  /\ definition = NoValue
  /\ meta = NoValue
  /\ remaining = <<>>
  /\ attempts = <<>>
  /\ service = NoCall

ValNext == Validate \/ Generate
ValSpec == ValInit /\ [][ValNext]_vars

(***************************************************************************)
(* Properties                                                               *)
(***************************************************************************)

\* The stages that have run so far, in order, as agent_logs records them
Steps == [k \in 1..Len(agent_logs) |-> agent_logs[k].step]

\* How many times a stage has run
Runs(step) == Cardinality({k \in 1..Len(agent_logs) : agent_logs[k].step = step})

\* The most recent attempt
LastAttempt == attempts[Len(attempts)]

\* code has an issue_details entry of severity "warning" in the result v
WarningFlagged(v, code) ==
  \E k \in 1..Len(v.issue_details) :
    v.issue_details[k].code = code /\ v.issue_details[k].severity = "warning"

\* The issue codes of v that are not warning-flagged, in the Validator's order
StillBlocking(v) == SelectSeq(v.issues, LAMBDA code : ~WarningFlagged(v, code))

\* v reports issues and all of them are warning-flagged
WarningsOnly(v) == v.issues # <<>> /\ StillBlocking(v) = <<>>

\* convert has returned or raised
Terminated == pc \in {"DONE", "FAILED"}

\* The input_text argument the Orchestrator passes to the Validator
ValidatorInputText ==
  IF reader_out.input_text # <<>> THEN reader_out.input_text ELSE text

\* C1: for every input and every sequence of Validator results, convert
\* returns or raises, and Planner and Validator each run at most
\* max_retries + 1 times.
C1_BoundedTermination ==
  /\ [](Runs("planner") <= max_retries + 1 /\ Runs("validator") <= max_retries + 1)
  /\ <>Terminated

\* A conversion that used every attempt the default max_retries allows
C1_Witness ==
  /\ Terminated
  /\ max_retries = 2
  /\ Runs("planner") = 3
  /\ Runs("validator") = 3

\* C2: convert raises if and only if the retry counter has reached
\* max_retries and the last Validator result has an issue code that is not
\* warning-flagged; it never raises while retries < max_retries; when it
\* raises, the Generator has not run and nothing is returned.
C2_RaiseIff ==
  /\ pc = "FAILED" <=> /\ attempts # <<>>
                       /\ LastAttempt.retries = max_retries
                       /\ StillBlocking(LastAttempt.validator_out) # <<>>
  /\ pc = "FAILED" => /\ retries = max_retries
                      /\ Runs("generator") = 0
                      /\ definition = NoValue
                      /\ meta = NoValue

\* A conversion that failed on its third attempt
C2_Witness ==
  /\ pc = "FAILED"
  /\ max_retries = 2
  /\ Len(attempts) = 3

\* C3: the Generator runs only when the most recent Validator result has no
\* blocking issue, and it runs on the Planner output of that last attempt.
C3_GeneratorOnValidPlan ==
  /\ pc \in {"GENERATE", "DONE"} =>
       /\ attempts # <<>>
       /\ StillBlocking(LastAttempt.validator_out) = <<>>
       /\ planner_out = LastAttempt.planner_out
  /\ pc = "DONE" =>
       definition = GeneratorAgent_run(text, reader_out, LastAttempt.planner_out,
                                       validator_out)

\* A definition generated after a retry from a result that still carried
\* warnings
C3_Witness ==
  /\ pc = "DONE"
  /\ Len(attempts) >= 2
  /\ LastAttempt.validator_out.issues # <<>>
  /\ attempts[1].planner_out # LastAttempt.planner_out

\* C4: a warnings-only Validator result obtained after at least one retry is
\* accepted: it is the last attempt and the Generator is next.  So a
\* warnings-only result causes at most one retry, and only the first one.
C4_WarningsAcceptedAfterRetry ==
  /\ \A k \in 1..Len(attempts) :
       (WarningsOnly(attempts[k].validator_out) /\ attempts[k].retries >= 1) =>
         /\ k = Len(attempts)
         /\ pc \in {"GENERATE", "DONE"}
  /\ \A k \in 1..Len(attempts) :
       (/\ WarningsOnly(attempts[k].validator_out)
        /\ (k < Len(attempts) \/ pc \in {"PLAN", "VALIDATE"})) =>
         k = 1 /\ attempts[k].retries = 0

\* A warnings-only result accepted with retries left over
C4_Witness ==
  /\ pc = "DONE"
  /\ max_retries = 2
  /\ Len(attempts) = 2
  /\ WarningsOnly(attempts[1].validator_out)
  /\ WarningsOnly(attempts[2].validator_out)

\* C5: when convert fails, the error lists exactly the issue codes of the
\* last Validator result that are not warning-flagged, in the Validator's
\* order.
C5_ErrorListsBlocking ==
  pc = "FAILED" => remaining = StillBlocking(LastAttempt.validator_out)

\* A failure whose last result mixed a warning with two blocking issues
C5_Witness ==
  /\ pc = "FAILED"
  /\ LastAttempt.validator_out.issues
       = <<"missing steps in task_1", "role_not_inferred", "compound_text_single_task">>
  /\ remaining = <<"missing steps in task_1", "compound_text_single_task">>

\* C6: a retry follows only a Validator result with at least one issue,
\* obtained while retries < max_retries; the returned meta["retries"] is the
\* number of Planner runs minus one and lies in 0..max_retries; when the first
\* validation reports no issue, Planner and Validator run once and retries = 0.
C6_RetryAccounting ==
  /\ \A k \in 1..Len(attempts) :
       (k < Len(attempts) \/ pc \in {"PLAN", "VALIDATE"}) =>
         /\ attempts[k].validator_out.issues # <<>>
         /\ attempts[k].retries < max_retries
  /\ pc = "DONE" =>
       /\ meta.retries = Runs("planner") - 1
       /\ meta.retries \in 0..max_retries
  /\ (attempts # <<>> /\ attempts[1].validator_out.issues = <<>>) =>
       /\ Len(attempts) = 1
       /\ Runs("planner") = 1
       /\ Runs("validator") = 1
       /\ retries = 0
       /\ pc \in {"GENERATE", "DONE"}

\* A conversion that returned after two retries
C6_Witness ==
  /\ pc = "DONE"
  /\ meta.retries = 2
  /\ Runs("planner") = 3

\* C7: the stages run in the order Reader, one or more (Planner, Validator)
\* pairs, Generator: the Reader runs once and first, every Validator run
\* directly follows a Planner run, and the Generator runs at most once, after
\* the last Validator run.
C7_StageOrder ==
  /\ \A k \in 1..Len(Steps) :
       /\ Steps[k] = "reader" <=> k = 1
       /\ Steps[k] = "planner" => k > 1 /\ Steps[k - 1] \in {"reader", "validator"}
       /\ Steps[k] = "validator" => k > 1 /\ Steps[k - 1] = "planner"
       /\ Steps[k] = "generator" =>
            k = Len(Steps) /\ k > 1 /\ Steps[k - 1] = "validator"
       /\ Steps[k] \in {"reader", "planner", "validator", "generator"}
  /\ pc = "DONE" => Steps[Len(Steps)] = "generator"
  /\ pc = "FAILED" => Steps[Len(Steps)] = "validator"
  /\ Len(Steps) = 0 <=> pc = "INIT"

\* A conversion with three (Planner, Validator) pairs
C7_Witness ==
  /\ pc = "DONE"
  /\ Steps = <<"reader", "planner", "validator", "planner", "validator",
               "planner", "validator", "generator">>

\* C8 as stated: convert("Approve expenses") returns with meta["retries"] >= 1
\* and a validator entry in agent_logs.
C8_RetriesAtLeastOne ==
  (text = TEXT_APPROVE_EXPENSES /\ pc = "DONE") =>
    /\ meta.retries >= 1
    /\ InList("validator", Steps)

\* C8, amended: convert("Approve expenses") does not fail and returns with
\* meta["retries"] = 0 and a validator entry in agent_logs.
C8_ApproveExpenses ==
  text = TEXT_APPROVE_EXPENSES =>
    /\ pc # "FAILED"
    /\ pc = "DONE" => /\ meta.retries = 0
                      /\ InList("validator", Steps)
                      /\ definition # NoValue

\* convert("Approve expenses") has returned
C8_Witness ==
  /\ text = TEXT_APPROVE_EXPENSES
  /\ pc = "DONE"
  /\ max_retries = 2

\* The Validator result of the one attempt reports compound_text_single_task
CompoundIssue(v) == InList("compound_text_single_task", v.issues)

\* C9 as stated: the Validator reports compound_text_single_task exactly when
\* the input is compound, the Planner output has one task, and at least two
\* raw actions existed or nothing was filtered out.
C9_RawActions ==
  attempts # <<>> =>
    (CompoundIssue(attempts[1].validator_out)
       <=> /\ is_compound_text(ValidatorInputText, captured.actions)
           /\ Len(planner_out.tasks) = 1
           /\ (Len(captured.actions_raw) >= 2
                 \/ Len(captured.actions_filtered_out) = 0))

\* C9, amended: the Validator reports the error compound_text_single_task
\* exactly when the input is compound, the Planner output has one task, and
\* at least two actions are left after filtering or nothing was filtered out.
\* One task for a compound input with nothing filtered gives
\* compound_detected = true and the issue; a single-clause input without
\* punctuation or compound marker gives compound_detected = false and no issue.
C9_CompoundSingleTask ==
  attempts # <<>> =>
    /\ CompoundIssue(attempts[1].validator_out)
         <=> /\ is_compound_text(ValidatorInputText, captured.actions)
             /\ Len(planner_out.tasks) = 1
             /\ (Len(captured.actions) >= 2
                   \/ Len(captured.actions_filtered_out) = 0)
    /\ CompoundIssue(attempts[1].validator_out) =>
         \E k \in 1..Len(attempts[1].validator_out.issue_details) :
           /\ attempts[1].validator_out.issue_details[k].code = "compound_text_single_task"
           /\ attempts[1].validator_out.issue_details[k].severity = "error"
    /\ (text = TEXT_APPLY_THEN_SETTLE /\ Len(planner_out.tasks) = 1) =>
         /\ attempts[1].validator_out.compound_detected
         /\ CompoundIssue(attempts[1].validator_out)
    /\ text = TEXT_ORDER =>
         /\ ~attempts[1].validator_out.compound_detected
         /\ ~CompoundIssue(attempts[1].validator_out)

\* One task planned for the compound input of the repository's test
C9_Witness ==
  /\ attempts # <<>>
  /\ text = TEXT_APPLY_THEN_SETTLE
  /\ Len(planner_out.tasks) = 1
  /\ CompoundIssue(attempts[1].validator_out)

\* C10: in every result the Validator returns, each issue code in issues has
\* at most one issue_details entry with that code.
C10_OneDetailPerCode ==
  \A k \in 1..Len(validator_out.issues) :
    Cardinality({j \in 1..Len(validator_out.issue_details) :
                   validator_out.issue_details[j].code = validator_out.issues[k]}) <= 1

\* The role labels role inference produces
RoleLabels == {"Applicant", "Approver", "Accounting"}

\* A Planner output has a task, and every task has a name, a step and a role
\* from the fixed label set
WellFormedPlan(p) ==
  /\ Len(p.tasks) >= 1
  /\ \A k \in 1..Len(p.tasks) :
       /\ p.tasks[k].name # <<>>
       /\ Len(p.tasks[k].steps) >= 1
       /\ p.tasks[k].role \in RoleLabels \cup {"Operator"}

\* C11: every Planner output, on the first attempt and on every retry, under
\* every combination of force_task_split and avoid_non_business, has at least
\* one task; every task has a non-empty name, at least one step and a role
\* from the fixed label set; when the Planner is left with no action at all it
\* emits exactly one default Applicant task.
C11_PlannerOutputWellFormed ==
  /\ \A k \in 1..Len(attempts) : WellFormedPlan(attempts[k].planner_out)
  /\ pc = "VALIDATE" =>
       /\ WellFormedPlan(planner_out)
       /\ PlannerActions(reader_out) = <<>> =>
            /\ Len(planner_out.tasks) = 1
            /\ planner_out.tasks[1].id = "task_1"
            /\ planner_out.tasks[1].role = "Applicant"
            /\ planner_out.tasks[1].name = STR_PROCESS_REQUEST
            /\ planner_out.tasks[1].steps = <<STR_REVIEW_INPUT, STR_RECORD_OUTCOME>>
            /\ planner_out.tasks[1].recipients = <<>>

\* The default task planned on a retry that asks to avoid non-business
\* actions, for an input without any action
C11_Witness ==
  /\ pc = "VALIDATE"
  /\ retries >= 1
  /\ reader_out.avoid_non_business
  /\ ~reader_out.force_task_split
  /\ reader_out.actions = <<>>
  /\ Len(planner_out.tasks) = 1

\* The calls of llm_generate made at a call site
CallsAt(site) == SelectSeq(llm.calls, LAMBDA call : call.site = site)

\* The dict the last call of llm_generate at a call site gave it, {} when the
\* site has made no call, or the call raised or returned no JSON object
LastPayload(site) ==
  IF CallsAt(site) = <<>> THEN EmptyPayload
  ELSE CallsAt(site)[Len(CallsAt(site))].payload

\* The actions the Planner infers roles for on this attempt: its own, then the
\* actions of the LLM's answer found in the input text
ActionsPlanned ==
  PlannedActions(reader_out,
                 [actions |-> _filter_actions_in_text(LastPayload("planner").actions,
                                                      Strip(reader_out.input_text), 20)])

\* The roles the rule assigns to an action: in the priority order Approver,
\* Accounting, Applicant, those with a keyword in the action; Applicant alone
\* when there is none
RolesOfAction(action) ==
  LET hit == SelectSeq(<<"Approver", "Accounting", "Applicant">>,
                       LAMBDA role : _contains_any(Strip(action), ROLE_KEYWORDS(role)))
  IN  IF hit = <<>> THEN <<"Applicant">> ELSE hit

\* One (action, role) pair per role of each action, in action order
RECURSIVE RolePairs(_)
RolePairs(actions) ==
  IF actions = <<>> THEN <<>>
  ELSE LET roles == RolesOfAction(Head(actions))
       IN  [k \in 1..Len(roles) |-> [action |-> Head(actions), role |-> roles[k]]]
             \o RolePairs(Tail(actions))

\* The (source action, role) pairs of the tasks of a Planner output
PlannedPairs(p) ==
  [k \in 1..Len(p.tasks) |->
     [action |-> p.role_inference[k].source_action, role |-> p.tasks[k].role]]

\* The role hints the Planner's LLM call returned for an action: their action
\* is the action and is found verbatim in the input text, their role is one of
\* the four allowed role names
HintsFor(action) ==
  SelectSeq(LastPayload("planner").role_hints, LAMBDA hint :
    /\ Strip(hint.action) = action
    /\ Contains(Strip(reader_out.input_text), action)
    /\ \E role \in allowed_roles : RoleText(role) = Strip(hint.role))

\* The roles an action is planned for: the role of its last hint alone, or
\* without a hint the roles the rule assigns to it
RolesPlanned(action) ==
  IF HintsFor(action) = <<>> THEN RolesOfAction(action)
  ELSE <<CHOOSE role \in allowed_roles :
           RoleText(role) = Strip(HintsFor(action)[Len(HintsFor(action))].role)>>

\* One (action, role) pair per role an action is planned for, in action order
RECURSIVE HintedPairs(_)
HintedPairs(actions) ==
  IF actions = <<>> THEN <<>>
  ELSE LET roles == RolesPlanned(Head(actions))
       IN  [k \in 1..Len(roles) |-> [action |-> Head(actions), role |-> roles[k]]]
             \o HintedPairs(Tail(actions))

\* C12 as stated: for each action the Planner emits one task per role that
\* role inference returns, in that order, whatever the LLM hinted; the roles
\* are, in the priority order Approver, Accounting, Applicant, exactly those
\* with a matched keyword, or Applicant alone when no role keyword matched; so
\* there are never fewer tasks than actions planned.
C12_OneTaskPerRole ==
  (pc = "VALIDATE" /\ ActionsPlanned # <<>>) =>
    /\ Len(planner_out.role_inference) = Len(planner_out.tasks)
    /\ PlannedPairs(planner_out) = RolePairs(ActionsPlanned)
    /\ Len(planner_out.tasks) >= Len(ActionsPlanned)

\* C12, amended: for each action the Planner emits one task per role of the
\* action's role list, in that order. The list is the one role inference
\* returns, unless the Planner's LLM call returned a role hint for the action:
\* then it is the hinted role alone. Role inference returns, in the priority
\* order Approver, Accounting, Applicant, exactly the roles with a matched
\* keyword, or Applicant alone when no role keyword matched; so there are
\* never fewer tasks than actions planned.
C12_OneTaskPerPlannedRole ==
  (pc = "VALIDATE" /\ ActionsPlanned # <<>>) =>
    /\ Len(planner_out.role_inference) = Len(planner_out.tasks)
    /\ PlannedPairs(planner_out) = HintedPairs(ActionsPlanned)
    /\ Len(planner_out.tasks) >= Len(ActionsPlanned)
    /\ LastPayload("planner").role_hints = <<>> =>
         PlannedPairs(planner_out) = RolePairs(ActionsPlanned)

\* An action with keywords of two roles was planned as two tasks, and an
\* action the rule gives to the Applicant was planned for the hinted Accounting
C12_Witness ==
  /\ pc = "VALIDATE"
  /\ Len(planner_out.tasks) > Len(ActionsPlanned)
  /\ \E k \in 1..(Len(planner_out.tasks) - 1) :
       /\ planner_out.role_inference[k].source_action
            = planner_out.role_inference[k + 1].source_action
       /\ planner_out.tasks[k].role = "Approver"
       /\ planner_out.tasks[k + 1].role = "Accounting"
  /\ \E k \in 1..Len(planner_out.tasks) :
       /\ planner_out.role_inference[k].source_action = TEXT_NOTIFY
       /\ RolesOfAction(TEXT_NOTIFY) = <<"Applicant">>
       /\ HintsFor(TEXT_NOTIFY) # <<>>
       /\ planner_out.tasks[k].role = "Accounting"

\* The filter removed every candidate of a non-empty actions_raw
AllRemoved(r) ==
  /\ r.actions_raw # <<>>
  /\ \A k \in 1..Len(r.actions_raw) : InList(r.actions_raw[k], r.actions_filtered_out)

\* The actions the rules give the Reader: actions_raw when the filter removed
\* all of it, what the filter kept otherwise
RuleActions(r) ==
  IF AllRemoved(r) THEN r.actions_raw ELSE filter_business_actions(r.actions_raw)

\* C13 as stated: in every record the Reader returns, actions is non-empty
\* whenever actions_raw is, and action_filter_fallback is true exactly when
\* the business filter removed every candidate of a non-empty actions_raw;
\* actions is then actions_raw.
C13_FilterFallback ==
  pc # "INIT" =>
    /\ reader_out.actions_raw # <<>> => reader_out.actions # <<>>
    /\ reader_out.action_filter_fallback <=> AllRemoved(reader_out)
    /\ reader_out.action_filter_fallback => reader_out.actions = reader_out.actions_raw

\* C13, amended: in every record the Reader returns, actions is non-empty
\* whenever actions_raw is, and action_filter_fallback is true exactly when
\* the business filter removed every candidate of a non-empty actions_raw;
\* actions then begins with actions_raw, and otherwise with what the filter
\* kept. What follows are actions of the LLM's answer, each found verbatim in
\* the input text and listed once; when the Reader's LLM call gave no action,
\* nothing follows.
C13_FallbackThenMerge ==
  pc # "INIT" =>
    /\ reader_out.actions_raw # <<>> => reader_out.actions # <<>>
    /\ reader_out.action_filter_fallback <=> AllRemoved(reader_out)
    /\ Len(reader_out.actions) >= Len(RuleActions(reader_out))
    /\ SubSeq(reader_out.actions, 1, Len(RuleActions(reader_out))) = RuleActions(reader_out)
    /\ \A k \in (Len(RuleActions(reader_out)) + 1)..Len(reader_out.actions) :
         /\ Contains(reader_out.input_text, reader_out.actions[k])
         /\ \E j \in 1..Len(LastPayload("reader").actions) :
              Strip(LastPayload("reader").actions[j]) = reader_out.actions[k]
         /\ \A j \in 1..(k - 1) : reader_out.actions[j] # reader_out.actions[k]
    /\ LastPayload("reader").actions = <<>> =>
         reader_out.actions = RuleActions(reader_out)

\* The Reader fell back to the raw action of a greeting, and the greeting
\* keyword the LLM named in it follows
C13_Witness ==
  /\ pc # "INIT"
  /\ reader_out.action_filter_fallback
  /\ reader_out.actions_raw = <<TEXT_GOOD_MORNING>>
  /\ reader_out.actions = <<TEXT_GOOD_MORNING, TEXT_GREETING>>

\* The names of the tasks of the returned definition
FinalTaskNames == [k \in 1..Len(definition.tasks) |-> definition.tasks[k].name]

\* Neither the greeting keyword ohayou nor the small-talk keyword tenki occurs
\* in any of the phrases
NoSmallTalk(phrases) ==
  \A k \in 1..Len(phrases) :
    /\ ~Contains(phrases[k], NON_BUSINESS_KEYWORDS[1])
    /\ ~Contains(phrases[k], NON_BUSINESS_KEYWORDS[8])

\* C14: when the filter fallback was not used, no phrase of
\* actions_filtered_out is in meta["actions"] or is the name of a task of the
\* final definition, whether or not the conversion retried; for the input of
\* the repository's test, no action and no task name contains ohayou or tenki.
C14_FilteredOutStayOut ==
  (pc = "DONE" /\ ~meta.action_filter_fallback) =>
    /\ \A k \in 1..Len(meta.actions_filtered_out) :
         /\ ~InList(meta.actions_filtered_out[k], meta.actions)
         /\ ~InList(meta.actions_filtered_out[k], FinalTaskNames)
    /\ text = TEXT_GREETING_FLOW =>
         /\ NoSmallTalk(meta.actions)
         /\ NoSmallTalk(FinalTaskNames)
         /\ ~NoSmallTalk(meta.actions_raw)

\* The person entities the Reader extracted that an action names, by surface
\* form or by bare name, as recipients
NamedPeople(action) ==
  LET named == SelectSeq(reader_out.entities_detail.people, LAMBDA person :
                 Contains(action, person.surface) \/ Contains(action, person.name))
  IN  [k \in 1..Len(named) |->
         [type |-> "person", name |-> named[k].name, surface |-> named[k].surface]]

\* The action a task of a Planner output was planned from; the default task
\* has none
SourceAction(p, k) ==
  IF k <= Len(p.role_inference) THEN p.role_inference[k].source_action ELSE <<>>

\* C15: in every Planner output a task has recipients only if its source
\* action contains a contact keyword and its role is Applicant; the recipients
\* of such a task are exactly the known person entities whose surface form or
\* bare name occurs in the action, each of type "person".
C15_Recipients ==
  pc = "VALIDATE" =>
    \A k \in 1..Len(planner_out.tasks) :
      /\ planner_out.tasks[k].recipients # <<>> =>
           /\ _contains_any(SourceAction(planner_out, k), CONTACT_KEYWORDS)
           /\ planner_out.tasks[k].role = "Applicant"
      /\ (/\ _contains_any(SourceAction(planner_out, k), CONTACT_KEYWORDS)
          /\ planner_out.tasks[k].role = "Applicant") =>
           planner_out.tasks[k].recipients = NamedPeople(SourceAction(planner_out, k))

\* A contact task that names one of the two people of its input
C15_Witness ==
  /\ pc = "VALIDATE"
  /\ Len(reader_out.entities_detail.people) = 2
  /\ \E k \in 1..Len(planner_out.tasks) : Len(planner_out.tasks[k].recipients) = 1

\* The name or a step of the task contains one of the five conditional
\* markers (tara, nara, baai, ato, shidai)
HasConditionalMarker(task) ==
  \E m \in 1..Len(CONDITION_MARKERS) :
    \/ Contains(task.name, CONDITION_MARKERS[m])
    \/ \E j \in 1..Len(task.steps) : Contains(task.steps[j], CONDITION_MARKERS[m])

\* The Validator result of the one attempt reports a missing trigger for the
\* task
MissingTriggerReported(task) ==
  InList("missing trigger in " \o (IF task.id # "" THEN task.id ELSE "unknown_task"),
         attempts[1].validator_out.issues)

\* C16: the Validator reports "missing trigger in {id}" for a task exactly
\* when the task's name or steps contain a conditional marker and its trigger
\* is empty; a task without conditional marker never gets that issue, even
\* with an empty trigger.
C16_MissingTrigger ==
  attempts # <<>> =>
    \A k \in 1..Len(planner_out.tasks) :
      MissingTriggerReported(planner_out.tasks[k])
        <=> \E j \in 1..Len(planner_out.tasks) :
              /\ planner_out.tasks[j].id = planner_out.tasks[k].id
              /\ HasConditionalMarker(planner_out.tasks[j])
              /\ planner_out.tasks[j].trigger = <<>>

\* A conditional task without trigger next to a plain task without trigger:
\* the issue is reported for the first only
C16_Witness ==
  /\ attempts # <<>>
  /\ Len(planner_out.tasks) = 2
  /\ HasConditionalMarker(planner_out.tasks[1])
  /\ planner_out.tasks[1].trigger = <<>>
  /\ ~HasConditionalMarker(planner_out.tasks[2])
  /\ planner_out.tasks[2].trigger = <<>>
  /\ MissingTriggerReported(planner_out.tasks[1])
  /\ ~MissingTriggerReported(planner_out.tasks[2])

\* The text contains one of the five conditional markers
NamesCondition(name) ==
  \E m \in 1..Len(CONDITION_MARKERS) : Contains(name, CONDITION_MARKERS[m])

\* C17: in the final definition a task's trigger is non-empty if and only if
\* the task's own name contains a conditional marker, and the Generator keeps
\* the Planner's trigger: an empty trigger stays the empty string, the default
\* trigger is not put in its place.
C17_TriggersNotGlobal ==
  pc = "DONE" =>
    /\ Len(definition.tasks) = Len(planner_out.tasks)
    /\ \A k \in 1..Len(definition.tasks) :
         /\ definition.tasks[k].trigger # <<>> <=> NamesCondition(definition.tasks[k].name)
         /\ definition.tasks[k].trigger = planner_out.tasks[k].trigger

\* A definition with a conditional task and an unconditional one, for an
\* input whose Reader record has a condition to offer as default trigger
C17_Witness ==
  /\ pc = "DONE"
  /\ reader_out.conditions # <<>>
  /\ \E j, k \in 1..Len(definition.tasks) :
       /\ definition.tasks[j].trigger = reader_out.conditions[1]
       /\ NamesCondition(definition.tasks[j].name)
       /\ definition.tasks[k].trigger = <<>>
       /\ ~NamesCondition(definition.tasks[k].name)

\* The issue_details entries of severity "warning" of a Validator result
WarningDetails(v) == SelectSeq(v.issue_details, LAMBDA detail : detail.severity = "warning")

\* C18: when convert returns after a last Validator result that reported
\* warning-severity issues, accepted after a retry or left over once the
\* retries were used up, the details of those warnings are in
\* meta["validator_issues"], and the definition was generated.
C18_WarningsSurfaced ==
  (pc = "DONE" /\ WarningDetails(LastAttempt.validator_out) # <<>>) =>
    /\ \A k \in 1..Len(WarningDetails(LastAttempt.validator_out)) :
         InList(WarningDetails(LastAttempt.validator_out)[k], meta.validator_issues)
    /\ meta.validator_issues = LastAttempt.validator_out.issue_details
    /\ definition # NoValue
    /\ Runs("generator") = 1

\* Two warnings accepted after one retry, with a retry left over
C18_Witness ==
  /\ pc = "DONE"
  /\ max_retries = 2
  /\ meta.retries = 1
  /\ issues = <<>>
  /\ Len(WarningDetails(LastAttempt.validator_out)) = 2
  /\ Len(meta.validator_issues) = 2

\* text.isspace() or text == ""
IsBlank(t) == \A k \in 1..Len(t) : IsSpace(t[k])

\* C20: for every empty or whitespace-only input the Reader returns empty
\* actions, actions_raw, actions_filtered_out, conditions and entity lists,
\* action_filter_fallback = false, and assumptions = ["input is empty"].
C20_BlankInput ==
  (pc # "INIT" /\ IsBlank(text)) =>
    /\ reader_out.actions = <<>>
    /\ reader_out.actions_raw = <<>>
    /\ reader_out.actions_filtered_out = <<>>
    /\ reader_out.conditions = <<>>
    /\ reader_out.entities = <<>>
    /\ \A key \in {"people", "orgs", "amounts", "dates"} :
         reader_out.entities_detail[key] = <<>>
    /\ reader_out.action_filter_fallback = FALSE
    /\ reader_out.assumptions = <<STR_INPUT_IS_EMPTY>>

\* The Reader has returned for an input of a tab, a newline and an
\* ideographic space
C20_Witness ==
  /\ pc = "PLAN"
  /\ text = <<9, 10, 12288>>
  /\ reader_out.assumptions = <<STR_INPUT_IS_EMPTY>>

\* A set's elements in ascending order
RECURSIVE Ascending(_)
Ascending(set) ==
  IF set = {} THEN <<>>
  ELSE With(CHOOSE low \in set : \A other \in set : low <= other, LAMBDA low :
         <<low>> \o Ascending(set \ {low}))

\* One order for every set of contact keywords, for what does not depend on
\* the order: the roles and the tasks of an action
SomeOrders == [set \in SUBSET (1..Len(CONTACT_KEYWORDS)) |-> Ascending(set)]

\* convert with LLM_ENABLED unset, from the head of its loop on, with the
\* Reader's dict r and n retries made: whether it raises, the retries it
\* makes, and the tasks of the definition it returns
RECURSIVE PlainLoop(_, _)
PlainLoop(r, n) ==
  With(PlannerAgent_run(r, SomeOrders), LAMBDA p :
    With(ValidatorAgent_run(p, IF r.input_text # <<>> THEN r.input_text ELSE text,
                            r.actions, r.actions_filtered_out, r.entities_detail),
         LAMBDA v :
      With(Outcome(v.issues, v.issue_details, n), LAMBDA outcome :
        IF outcome = "retry" THEN PlainLoop(RetrySignals(r, v.issues), n + 1)
        ELSE [raised  |-> outcome = "raise",
              retries |-> n,
              tasks   |-> IF outcome = "raise" THEN <<>>
                          ELSE GeneratorAgent_run(text, r, p, v).tasks])))

\* convert with LLM_ENABLED unset
PlainConvert == PlainLoop(ReaderAgent_run(text), 0)

\* Every call of llm_generate made so far raised or returned an unusable
\* response
EveryCallFailed == \A k \in 1..Len(llm.calls) : llm.calls[k].unusable

\* The last call of llm_generate at a call site failed
LastCallFailed(site) ==
  CallsAt(site) # <<>> /\ CallsAt(site)[Len(CallsAt(site))].unusable

\* What convert has come to: returned, raised, or still running
SameAsPlain(plain) ==
  /\ (pc = "FAILED") = plain.raised
  /\ retries = plain.retries
  /\ pc = "DONE" => definition.tasks = plain.tasks

\* C19: when every call of the LLM, at the Reader, at the Planner on any
\* attempt and at the Generator, raises or returns an unusable response,
\* convert ends as it does with the LLM disabled: it returns or raises alike,
\* with the same tasks and the same retry count; and a failed call is
\* recorded in the usage record of its own stage, as an error with used =
\* false, while a stage whose call did not fail records no failure.
C19_LlmFailureContained ==
  /\ (pc \in {"DONE", "FAILED"} /\ EveryCallFailed) => SameAsPlain(PlainConvert)
  /\ \A site \in Stages :
       IF LastCallFailed(site)
       THEN /\ llm[site].enabled
            /\ ~llm[site].used
            /\ llm[site].error \notin {"", "empty_text"}
       ELSE llm[site] # NoValue => llm[site].error \in {"", "empty_text"}

\* convert has returned after a retry although the Reader's call, both of the
\* Planner's calls and the Generator's call failed
C19_Witness ==
  /\ pc = "DONE"
  /\ retries = 1
  /\ llm.features = Stages
  /\ Len(CallsAt("reader")) = 1
  /\ Len(CallsAt("planner")) = 2
  /\ Len(CallsAt("generator")) = 1
  /\ EveryCallFailed
  /\ llm.planner.error = "RuntimeError"
  /\ llm.generator.error = "invalid_response"

\* A phrase holds one of the separators of split_actions
HoldsSeparator(phrase) == \E k \in 1..Len(SEPARATORS) : Contains(phrase, SEPARATORS[k])

\* C21: splitting is idempotent on its own output: every phrase of
\* split_actions(text) holds none of the six separators, and splitting the
\* phrase again returns the phrase alone, unchanged.
C21_SplitIdempotent ==
  service.fn = "split_actions" =>
    \A k \in 1..Len(service.result) :
      /\ ~HoldsSeparator(service.result[k])
      /\ split_actions(service.result[k]) = <<service.result[k]>>

\* A text with a separator, split into two phrases, one of them rewritten
\* from a final "shi" to "suru"
C21_Witness ==
  /\ service.fn = "split_actions"
  /\ HoldsSeparator(service.arg)
  /\ Len(service.result) = 2
  /\ \E k \in 1..2 : /\ EndsWith(service.result[k], STR_SURU)
                      /\ ~Contains(service.arg, STR_SURU)

\* The positions at which marker number k occurs in a phrase
OccurrencesOf(k, phrase) ==
  {i \in 1..Len(phrase) : StartsAt(phrase, CONDITION_MARKERS[k], i)}

\* The markers that occur in a phrase
MarkersIn(phrase) == {k \in 1..Len(CONDITION_MARKERS) : OccurrencesOf(k, phrase) # {}}

\* The leftmost position at which any marker occurs in a phrase
LeftmostPos(phrase) ==
  CHOOSE i \in UNION {OccurrencesOf(k, phrase) : k \in MarkersIn(phrase)} :
    \A j \in UNION {OccurrencesOf(k, phrase) : k \in MarkersIn(phrase)} : i <= j

\* The prefix of a phrase up to the end of marker number k at position i, one
\* character longer exactly when the marker is "ato" or "shidai" and "ni"
\* comes next
TriggerPrefix(phrase, k, i) ==
  SubSeq(phrase, 1,
         i + Len(CONDITION_MARKERS[k]) - 1
           + (IF /\ k \in {4, 5}
                 /\ i + Len(CONDITION_MARKERS[k]) <= Len(phrase)
                 /\ phrase[i + Len(CONDITION_MARKERS[k])] = STR_NI[1]
              THEN 1 ELSE 0))

\* What C25 says extract_trigger_phrase returns for a stripped phrase
ExpectedTrigger(phrase) ==
  IF MarkersIn(phrase) = {} THEN <<>>
  ELSE TriggerPrefix(phrase,
                     CHOOSE k \in MarkersIn(phrase) :
                       LeftmostPos(phrase) \in OccurrencesOf(k, phrase),
                     LeftmostPos(phrase))

\* C25: extract_trigger_phrase returns the empty string iff the stripped
\* phrase holds none of the five markers; otherwise it returns the prefix of
\* the stripped phrase that ends with the leftmost marker occurrence, one
\* character longer exactly when that marker is "ato" or "shidai" and the
\* next character is "ni"; that result is a non-empty prefix of the stripped
\* phrase.
C25_TriggerPhrase ==
  service.fn = "extract_trigger_phrase" =>
    /\ service.result = ExpectedTrigger(Strip(service.arg))
    /\ (service.result = <<>>) = (MarkersIn(Strip(service.arg)) = {})
    /\ MarkersIn(Strip(service.arg)) # {} =>
         /\ Len(service.result) \in 1..Len(Strip(service.arg))
         /\ service.result = SubSeq(Strip(service.arg), 1, Len(service.result))

\* A phrase in which "ato", followed by "ni", comes before "tara": the result
\* ends with that "ni"
C25_Witness ==
  /\ service.fn = "extract_trigger_phrase"
  /\ MarkersIn(service.arg) = {1, 4}
  /\ Len(service.result) = 4
  /\ Len(service.arg) > 4
  /\ service.result = SubSeq(service.arg, 1, 4)
  /\ service.result[3] = CONDITION_MARKERS[4][1]
  /\ service.result[4] = STR_NI[1]

\* The ids of a Planner output are task_1, task_2, ... in list order
NumberedFromOne(p) == \A k \in 1..Len(p.tasks) : p.tasks[k].id = "task_" \o ToString(k)

\* The role list of a Planner output names no role twice, and names exactly
\* the roles its own tasks use
RolesOfOwnTasks(p) ==
  /\ \A j, k \in 1..Len(p.roles) : p.roles[j].name = p.roles[k].name => j = k
  /\ {p.roles[k].name : k \in 1..Len(p.roles)} = {p.tasks[k].role : k \in 1..Len(p.tasks)}

\* C22: in every Planner output, on the first attempt and on every retry,
\* the task ids are task_1 .. task_N in list order, so the numbering restarts
\* on every retry, and the role list has no duplicate names and names exactly
\* the roles used by that output's tasks: no task and no role of an earlier
\* attempt is carried over.
C22_PlannerRebuilds ==
  /\ NumberedFromOne(planner_out) /\ RolesOfOwnTasks(planner_out)
  /\ \A k \in 1..Len(attempts) :
       /\ NumberedFromOne(attempts[k].planner_out)
       /\ RolesOfOwnTasks(attempts[k].planner_out)

\* A retry whose Planner output has more tasks than the one before, numbered
\* from task_1 again, two of them with the same role
C22_Witness ==
  /\ Len(attempts) >= 2
  /\ Len(attempts[2].planner_out.tasks) > Len(attempts[1].planner_out.tasks)
  /\ attempts[1].planner_out.tasks[1].id = "task_1"
  /\ attempts[2].planner_out.tasks[1].id = "task_1"
  /\ Len(attempts[2].planner_out.roles) < Len(attempts[2].planner_out.tasks)

\* The attempts so far whose validation led to a retry
RetriedAttempts == {k \in 1..Len(attempts) : attempts[k].outcome = "retry"}

\* Whether a validation that led to a retry listed the code
RetriedWith(code) ==
  \E k \in RetriedAttempts : InList(code, attempts[k].validator_out.issues)

\* The issue list of the most recent validation that led to a retry; the key
\* is absent (read as []) before the first retry
LastRetriedIssues ==
  IF RetriedAttempts = {} THEN <<>>
  ELSE attempts[CHOOSE k \in RetriedAttempts : \A j \in RetriedAttempts : j <= k]
         .validator_out.issues

\* The retry signals on the Reader's dict are what the retries so far make them
SignalsFollowRetries ==
  /\ reader_out.force_task_split = RetriedWith("compound_text_single_task")
  /\ reader_out.avoid_non_business = RetriedWith("non_business_task_detected")
  /\ reader_out.retry_issues = LastRetriedIssues

\* No step of convert clears a flag that is set
FlagsKept ==
  /\ reader_out.force_task_split => reader_out'.force_task_split
  /\ reader_out.avoid_non_business => reader_out'.avoid_non_business

\* C23: whenever the Planner runs, force_task_split is true iff an earlier
\* validation of this conversion that led to a retry listed
\* compound_text_single_task, avoid_non_business is true iff one listed
\* non_business_task_detected, and retry_issues is the issue list of the most
\* recent validation that led to a retry; no step clears a flag once it is set.
C23_RetryFlags ==
  /\ [](pc \in {"PLAN", "VALIDATE"} => SignalsFollowRetries)
  /\ [][pc # "INIT" => FlagsKept]_vars

\* The Planner has run for the third time: the first retry set both flags at
\* once, the second had neither code in its issues, and both flags still hold
C23_Witness ==
  /\ pc = "VALIDATE"
  /\ Len(attempts) = 2
  /\ InList("compound_text_single_task", attempts[1].validator_out.issues)
  /\ InList("non_business_task_detected", attempts[1].validator_out.issues)
  /\ attempts[2].outcome = "retry"
  /\ ~InList("compound_text_single_task", attempts[2].validator_out.issues)
  /\ ~InList("non_business_task_detected", attempts[2].validator_out.issues)
  /\ reader_out.force_task_split /\ reader_out.avoid_non_business
  /\ reader_out.retry_issues = attempts[2].validator_out.issues

\* A Reader dict without the three keys a retry writes
WithoutSignals(r) ==
  [r EXCEPT !.retry_issues = <<>>, !.force_task_split = FALSE,
            !.avoid_non_business = FALSE]

\* Every key of the Reader's dict but the three retry keys has the value the
\* Reader returned, the locals read before the loop have those values, and
\* the Validator of every attempt so far was given them
ReaderValuesKept ==
  /\ WithoutSignals(reader_out) = WithoutSignals(ReaderAgent_run(text))
  /\ captured.actions = reader_out.actions
  /\ captured.actions_raw = reader_out.actions_raw
  /\ captured.actions_filtered_out = reader_out.actions_filtered_out
  /\ captured.entities = reader_out.entities_detail
  /\ \A k \in 1..Len(attempts) :
       attempts[k].validator_out =
         ValidatorAgent_run(attempts[k].planner_out, ValidatorInputText,
                            reader_out.actions, reader_out.actions_filtered_out,
                            reader_out.entities_detail)
  /\ \A j, k \in 1..Len(attempts) :
       attempts[j].validator_out.compound_detected
         = attempts[k].validator_out.compound_detected

\* A step changes nothing of the Reader's dict but the three retry keys, and
\* nothing of the locals read before the loop
OnlySignalsChange ==
  /\ WithoutSignals(reader_out') = WithoutSignals(reader_out)
  /\ captured' = captured

\* C24: once the Reader has run, the Orchestrator changes only retry_issues,
\* force_task_split and avoid_non_business on the Reader's dict; input_text,
\* actions, actions_raw, actions_filtered_out and entities keep the Reader's
\* values, and the Validator of every attempt is given those values and
\* computes the same compound_detected, whatever action list the Planner
\* worked on.
C24_ReaderValuesFrozen ==
  /\ [](pc # "INIT" => ReaderValuesKept)
  /\ [][pc # "INIT" => OnlySignalsChange]_vars

\* A retry whose Planner force-split its working action list into more tasks:
\* the Reader's dict still holds the one action, and both validations found
\* the input compound
C24_Witness ==
  /\ Len(attempts) = 2
  /\ reader_out.force_task_split
  /\ Len(reader_out.actions) = 1
  /\ Len(attempts[1].planner_out.tasks) = 1
  /\ Len(attempts[2].planner_out.tasks) > 1
  /\ attempts[1].validator_out.compound_detected
  /\ attempts[2].validator_out.compound_detected

\* The issue codes of the Validator's heuristic checks, each reported with an
\* issue_details entry; every other issue is one of the structural checks
\* (tasks missing, missing name/role/trigger/steps in a task, roles missing,
\* role name missing)
HeuristicCodes ==
  {"notification_without_recipient", "non_business_task_detected",
   "role_not_inferred", "compound_text_single_task", "suspicious_global_trigger"}

\* The structural issues of a Validator result
StructuralIssues(v) == SelectSeq(v.issues, LAMBDA issue : issue \notin HeuristicCodes)

\* The Planner outputs of this conversion: those of the attempts so far, and
\* the one not validated yet
PlannerOutputs ==
  {attempts[k].planner_out : k \in 1..Len(attempts)}
    \cup (IF pc = "VALIDATE" THEN {planner_out} ELSE {})

\* C26: the Validator reports no structural issue on any output of the
\* Planner, so the only issue of an attempt that is not warning-flagged, and
\* the only code the raised error carries, is compound_text_single_task.
C26_NoStructuralIssue ==
  /\ \A p \in PlannerOutputs :
       StructuralIssues(ValidatorAgent_run(p, ValidatorInputText, captured.actions,
                                           captured.actions_filtered_out,
                                           captured.entities)) = <<>>
  /\ \A k \in 1..Len(attempts) :
       /\ StructuralIssues(attempts[k].validator_out) = <<>>
       /\ blocking_issues(attempts[k].validator_out.issues,
                          attempts[k].validator_out.issue_details)
            \in {<<>>, <<"compound_text_single_task">>}
  /\ pc = "FAILED" => remaining = <<"compound_text_single_task">>

\* convert has raised after a retry whose Planner output had a task with a
\* condition in its name, and a trigger
C26_Witness ==
  /\ pc = "FAILED"
  /\ Len(attempts) >= 2
  /\ \E k \in 1..Len(LastAttempt.planner_out.tasks) :
       /\ Contains(LastAttempt.planner_out.tasks[k].name, CONDITION_MARKERS[1])
       /\ LastAttempt.planner_out.tasks[k].trigger # <<>>
  /\ remaining = <<"compound_text_single_task">>

\* The first validation reported compound_text_single_task
FirstReportsCompound ==
  attempts # <<>> /\ CompoundIssue(attempts[1].validator_out)

\* What a forced split starts from: the sole action or, when there is no
\* action, the input text
ForcedCandidate ==
  IF reader_out.actions # <<>> THEN reader_out.actions[1] ELSE reader_out.input_text

\* The text after a trigger phrase at the head of a phrase
AfterTrigger(phrase, trigger_phrase) ==
  Strip(SubSeq(phrase, Len(trigger_phrase) + 1, Len(phrase)))

\* The phrase holds a conditional marker followed by non-empty remaining text
HasSplittableCondition(phrase) ==
  /\ extract_trigger_phrase(phrase) # <<>>
  /\ AfterTrigger(Strip(phrase), extract_trigger_phrase(phrase)) # <<>>

\* convert returned after one retry whose Planner output had at least two
\* tasks
SplitAndReturned ==
  /\ pc = "DONE"
  /\ retries = 1
  /\ Len(attempts) = 2
  /\ Len(attempts[2].planner_out.tasks) >= 2

\* convert raised after max_retries retries, each with a single task and
\* compound_text_single_task again
SameErrorUntilRaise ==
  /\ pc = "FAILED"
  /\ retries = max_retries
  /\ Len(attempts) = max_retries + 1
  /\ \A k \in 1..Len(attempts) :
       /\ Len(attempts[k].planner_out.tasks) = 1
       /\ CompoundIssue(attempts[k].validator_out)
  /\ remaining = <<"compound_text_single_task">>

\* The roles inferred for the input text when it is planned as an action
RolesOfInputText == infer_roles_with_keywords(reader_out.input_text, SomeOrders).roles

\* C27 as stated: after a first validation with compound_text_single_task,
\* convert returns with retries = 1 and at least two tasks when the sole
\* action (or the input text, with no action) holds a marker followed by
\* text, and otherwise raises after max_retries retries of one task each.
C27_SplitOrRaise ==
  Terminated /\ FirstReportsCompound =>
    IF HasSplittableCondition(ForcedCandidate) THEN SplitAndReturned
    ELSE SameErrorUntilRaise

\* C27, amended: with max_retries = 0 convert raises without a retry.  With
\* max_retries >= 1, convert returns with retries = 1 and at least two tasks
\* when the sole action (or the input text, with no action) holds a marker
\* followed by text, and also when there is no action and the input text,
\* planned as the one action of the retry, is given a task for each of
\* several roles; otherwise it raises after max_retries retries of one task
\* each.
C27_ForcedSplit ==
  Terminated /\ FirstReportsCompound =>
    IF max_retries = 0 THEN SameErrorUntilRaise
    ELSE IF HasSplittableCondition(ForcedCandidate) THEN SplitAndReturned
    ELSE IF reader_out.actions = <<>> /\ Len(RolesOfInputText) >= 2
    THEN SplitAndReturned /\ Len(attempts[2].planner_out.tasks) = Len(RolesOfInputText)
    ELSE SameErrorUntilRaise

\* convert returned after a forced split of the sole action at its marker
C27_Witness ==
  /\ pc = "DONE"
  /\ FirstReportsCompound
  /\ Len(reader_out.actions) = 1
  /\ HasSplittableCondition(reader_out.actions[1])
  /\ Len(attempts[2].planner_out.tasks) = 2
  /\ attempts[2].planner_out.tasks[2].name
       = AfterTrigger(reader_out.actions[1], extract_trigger_phrase(reader_out.actions[1]))

\* force_task_split and avoid_non_business as the Planner of attempt k reads
\* them: set by the retries before it
ForceAt(k) == \E j \in 1..(k - 1) : CompoundIssue(attempts[j].validator_out)
AvoidAt(k) ==
  \E j \in 1..(k - 1) : InList("non_business_task_detected", attempts[j].validator_out.issues)

\* The retry before attempt k set no flag newly
BlindRetry(k) == ForceAt(k) = ForceAt(k - 1) /\ AvoidAt(k) = AvoidAt(k - 1)

\* The first validation reported warnings only, non_business_task_detected
\* not among them
FirstOnlyOtherWarnings ==
  /\ attempts # <<>>
  /\ only_warnings(attempts[1].validator_out.issues, attempts[1].validator_out.issue_details)
  /\ ~InList("non_business_task_detected", attempts[1].validator_out.issues)

\* The names and roles of a task list
NamesAndRoles(tasks) == [k \in 1..Len(tasks) |-> <<tasks[k].name, tasks[k].role>>]

\* C28: with the LLM disabled, an attempt after a retry that set no flag
\* newly has the Planner output and the issue list of the attempt before it;
\* for max_retries >= 1, a conversion whose first validation reported only
\* warnings other than non_business_task_detected returns with retries = 1
\* and the tasks of the first attempt.
C28_BlindRetry ==
  /\ \A k \in 2..Len(attempts) :
       BlindRetry(k) =>
         /\ attempts[k].planner_out = attempts[k - 1].planner_out
         /\ attempts[k].validator_out.issues = attempts[k - 1].validator_out.issues
  /\ Terminated /\ max_retries >= 1 /\ FirstOnlyOtherWarnings =>
       /\ pc = "DONE"
       /\ retries = 1
       /\ Len(attempts) = 2
       /\ planner_out = attempts[1].planner_out
       /\ NamesAndRoles(definition.tasks) = NamesAndRoles(attempts[1].planner_out.tasks)

\* convert returned after a blind retry of a first validation that reported
\* role_not_inferred only
C28_Witness ==
  /\ pc = "DONE"
  /\ retries = 1
  /\ FirstOnlyOtherWarnings
  /\ attempts[1].validator_out.issues = <<"role_not_inferred">>
  /\ BlindRetry(2)
  /\ Len(definition.tasks) >= 2

\* The validation of attempt k reported non_business_task_detected
NonBusinessAt(k) == InList("non_business_task_detected", attempts[k].validator_out.issues)

\* C29: with the LLM disabled, the first validation reports
\* non_business_task_detected only if the Reader's filter fallback was used;
\* an attempt whose Planner is asked to avoid non-business actions and not to
\* force a split plans the re-filtered raw actions, or the single default
\* task when none is left, and its validation does not report
\* non_business_task_detected.
C29_NonBusinessCorrected ==
  /\ attempts # <<>> /\ NonBusinessAt(1) => reader_out.action_filter_fallback
  /\ \A k \in 2..Len(attempts) :
       AvoidAt(k) /\ ~ForceAt(k) =>
         /\ ~NonBusinessAt(k)
         /\ \A j \in 1..Len(attempts[k].planner_out.tasks) :
              ~is_non_business_task(attempts[k].planner_out.tasks[j])
         /\ filter_business_actions(reader_out.actions_raw) = <<>> =>
              attempts[k].planner_out.tasks = <<DefaultTask>>

\* A greeting kept by the filter fallback was planned as a task and reported;
\* the retry planned the single default task, and nothing was reported
C29_Witness ==
  /\ Len(attempts) = 2
  /\ reader_out.action_filter_fallback
  /\ attempts[1].validator_out.issues = <<"non_business_task_detected">>
  /\ attempts[1].planner_out.tasks[1].name = reader_out.actions_raw[1]
  /\ reader_out.avoid_non_business /\ ~reader_out.force_task_split
  /\ attempts[2].planner_out.tasks = <<DefaultTask>>
  /\ attempts[2].validator_out.issues = <<>>

\* C30: when convert has returned, agent_logs is one reader entry, then a
\* planner entry and a validator entry for each of the retries + 1 attempts,
\* then one generator entry, 2 * retries + 4 entries in all, and the
\* validator entry of an attempt holds the number of issues the Validator
\* returned for it, counted before accepted warnings are cleared.
C30_AgentLogs ==
  pc = "DONE" =>
    /\ Len(agent_logs) = 2 * meta.retries + 4
    /\ Len(attempts) = meta.retries + 1
    /\ agent_logs[1] = _log_reader(reader_out)
    /\ \A k \in 1..Len(attempts) :
         /\ agent_logs[2 * k] = _log_planner(attempts[k].planner_out)
         /\ agent_logs[2 * k + 1].step = "validator"
         /\ agent_logs[2 * k + 1].issues_count = Len(attempts[k].validator_out.issues)
    /\ agent_logs[Len(agent_logs)] = _log_generator(definition)
    /\ Steps[Len(Steps)] = "generator"

\* convert returned after one retry, the second validation's two warnings
\* accepted and cleared: its log entry still counts them, and the first
\* entry counts three issues
C30_Witness ==
  /\ pc = "DONE"
  /\ meta.retries = 1
  /\ Len(agent_logs) = 6
  /\ validator_out.issues = <<>>
  /\ agent_logs[5].issues_count = 2
  /\ agent_logs[3].issues_count = 3
====
